---- MODULE Spec2Model ----
(***************************************************************************)
(* A model of the ECPB backup engine: the chunk store, the metadata store, *)
(* the backup worker and the restore engine (specification Spec, FaultSpec  *)
(* with environment failures, SnapSpec with a source directory that        *)
(* changes under the snapshot), and the job scheduler with the             *)
(* orchestrator's two run loops (specification SchedSpec, and              *)
(* SchedLiveSpec with the fairness of the run loops). The library classes  *)
(* are modelled on their own: DagSpec (DAG), StepSpec (Statement's retry   *)
(* loop), QueueSpec (PriorityQueue), RingSpec (CircularBuffer) and         *)
(* TreeSpec (BPlusTree).                                                   *)
(*                                                                         *)
(* Modelling conventions                                                   *)
(*  - A file is a sequence of bytes; the chunking window CHUNK_SIZE is     *)
(*    scaled down to ChunkWindow bytes.                                    *)
(*  - SHA-256 is collision free: it is modelled by an injective numbering  *)
(*    of byte sequences.                                                   *)
(*  - The compression and AES libraries are modelled symbolically: a chunk *)
(*    file's content is the term Encrypt_key(Compress_comp(data)); decoding*)
(*    a term with settings other than those it was built with fails or     *)
(*    yields garbage, both outcomes being explored.                        *)
(*  - Environment failures (a failing encryption, a chunk file that cannot *)
(*    be opened, a failing compression, a failing store_chunk or           *)
(*    store_file_manifest, a missing source path, a flipped byte or a      *)
(*    deleted chunk file, a failing store_encryption_key, a source file    *)
(*    written, truncated, replaced or deleted) are injected                *)
(*    nondeterministically, at most MaxFaults of them in one behaviour.    *)
(*  - A snapshot file is the bytes read through its path and the source    *)
(*    file whose inode it shares, if it was mirrored by link().            *)
(*  - Two fields of a worker's record are history: after (the jobs that    *)
(*    were COMPLETED when the worker started) and rows (the number of      *)
(*    ChunkRecords when it ended). No action reads them. The field sent    *)
(*    holds the messages the worker wrote to its message pipe, in order.   *)
(***************************************************************************)
EXTENDS Integers, Sequences, FiniteSets, TLC

\* ------------------------------------------------------------------ bounds
MaxJobs == 2
MaxFiles == 2
MaxFileLen == 3
MaxByte == 0
ChunkWindow == 2
MaxKeys == 2
MaxFaults == 1
MaxSchedJobs == 3
MaxDeps == 2
MaxWorkers == 2
MaxSteps == 3
MaxEntries == 6
MaxPriority == 1
RingCapacity == 3
MaxItem == 2
ORDER == 3
MaxKey == 5
MaxValue == 2

\* --------------------------------------------------------- program constants
AES_IV_LEN == 16
AES_BLOCK_SIZE == 16
SQLITE_MAX_RETRIES == 10

VARIABLES
    srcTree,          \* the source directory: a sequence of files (byte sequences)
    snapshots,        \* the snapshot directory of each job under the snapshot root
    jobs,             \* table jobs: job_id -> row
    chunks,           \* table chunks: hash -> row
    manifests,        \* tables file_manifests + file_chunks, in manifest_id order
    encryption_keys,  \* table encryption_keys: job_id -> key
    chunkFiles,       \* the chunk files on disk: storage path -> content
    wk,               \* each backup worker's position and locals
    faults,           \* the environment failures injected so far, by kind
    lastOp,           \* the call just made and its result
    dep_graph,        \* JobScheduler::dep_graph_: [adj, in_degree]
    in_progress,      \* JobScheduler::in_progress_
    pq,               \* JobScheduler::pq_, the job ids of its entries
    job_dependencies, \* table job_dependencies: pairs <<job_id, depends_on>>
    orch,             \* the orchestrator's run loop: mode, position, ready list
    active_workers,   \* BackupOrchestrator::active_workers_, by job
    worker_sem,       \* the value of the worker semaphore
    child,            \* the forked worker processes, by job
    execs,            \* history: how often BackupWorker::execute began, by job
    cascade,          \* history of the current run: <<j1, j2>>, j1's worker failed while j2 waited on it
    stmt,             \* a Statement under step(): the retry loop's position and history
    heap,             \* PriorityQueue<JobEntry, JobCompare>::heap_
    ring,             \* a CircularBuffer: [buf, head, tail, count]
    tree              \* a BPlusTree: [nodes, root, size], nodes named by their index

\* The state of the library classes that are modelled on their own.
unitVars == <<stmt, heap, ring, tree>>

\* The state of the backup program proper.
programVars ==
    <<srcTree, snapshots, jobs, chunks, manifests, encryption_keys, chunkFiles, wk, faults,
      dep_graph, in_progress, pq, job_dependencies, orch, active_workers, worker_sem,
      child, execs, cascade>>

storeVars == <<srcTree, snapshots, chunks, manifests, encryption_keys, chunkFiles, wk, faults, unitVars>>

schedVars == <<dep_graph, in_progress, pq, job_dependencies, orch, active_workers,
               worker_sem, child, execs, cascade, unitVars>>

vars == <<storeVars, schedVars, jobs, lastOp>>

\* ------------------------------------------------------------------ types.h
CompressionType == {"NONE", "LZ4", "ZSTD"}

Byte == 0 .. MaxByte
Keys == 1 .. MaxKeys
JobIds == 1 .. MaxJobs

RECURSIVE SeqsUpTo(_, _)
SeqsUpTo(S, n) ==
    IF n = 0 THEN {<<>>}
    ELSE LET shorter == SeqsUpTo(S, n - 1)
         IN  shorter \cup {Append(s, x) : s \in {t \in shorter : Len(t) = n - 1}, x \in S}

FileContents == SeqsUpTo(Byte, MaxFileLen)
SourceTrees == SeqsUpTo(FileContents, MaxFiles)

Min(a, b) == IF a < b THEN a ELSE b

\* ------------------------------------------------------------------ sha256.h
\* Bytes on disk range over 0 .. MaxByte + 1 (a flipped byte may leave the
\* source alphabet); GarbageByte stands for the bytes a mismatched decode yields.
GarbageByte == MaxByte + 2
HashBase == MaxByte + 4

RECURSIVE Sha256(_)
Sha256(bytes) ==
    IF bytes = <<>> THEN 0
    ELSE Sha256(SubSeq(bytes, 1, Len(bytes) - 1)) * HashBase + (bytes[Len(bytes)] + 1)

\* ------------------------------------------------------ compressor.h, aes256.h
\* The content of a chunk file, as a term.
Raw(data) == [enc |-> FALSE, key |-> 0, comp |-> "NONE", data |-> data, bad |-> FALSE]

\* Compressor::compress: empty (here NoBytes) on a library error.
NoBytes == [enc |-> FALSE, key |-> 0, comp |-> "NONE", data |-> <<>>, bad |-> FALSE]

compress(term, comp, fails) ==
    IF comp = "NONE" THEN term
    ELSE IF fails THEN NoBytes
    ELSE [term EXCEPT !.comp = comp]

\* AES256::encrypt: IV prepended to the CBC ciphertext; empty on an EVP error.
encrypt(term, key, fails) ==
    IF fails THEN NoBytes ELSE [term EXCEPT !.enc = TRUE, !.key = key]

\* The length in bytes of a term as written to disk.
ByteLen(term) ==
    LET inner == IF term.comp = "NONE" THEN Len(term.data) ELSE Len(term.data) + 1
    IN  IF term.enc
        THEN AES_IV_LEN + ((inner \div AES_BLOCK_SIZE) + 1) * AES_BLOCK_SIZE
        ELSE inner

Garbage == <<GarbageByte>>

\* AES256::decrypt of a chunk file's bytes: the plaintext as a term, or NoBytes
\* when EVP_DecryptFinal_ex rejects the padding. A wrong key, or bytes that are
\* no ciphertext, are rejected unless the padding happens to check (lucky), and
\* then the plaintext is garbage; a ciphertext with a flipped byte decrypts to
\* garbage.
decrypt(term, key, lucky) ==
    IF term.enc /\ term.key = key
    THEN IF term.bad THEN Raw(Garbage)
         ELSE [term EXCEPT !.enc = FALSE, !.key = 0]
    ELSE IF lucky THEN Raw(Garbage) ELSE NoBytes

\* The bytes a term is when read without decoding: those of a raw term are its
\* data, those of a compressed or encrypted one are not the original bytes.
PlainBytes(term) ==
    IF term.enc \/ term.comp # "NONE" THEN Garbage ELSE term.data

\* Compressor::decompress with the chunk's original size: the data, or empty
\* when the library rejects the stream.
decompress(term, size, comp, lucky) ==
    IF comp = "NONE" THEN PlainBytes(term)
    ELSE IF ~term.enc /\ term.comp = comp /\ ~term.bad /\ Len(term.data) <= size
         THEN term.data
    ELSE IF lucky THEN Garbage ELSE <<>>

\* ---------------------------------------------------------------- database.h
get_chunk_path(hash) == <<"chunks", hash>>

\* A deduplication check that never finds the chunk.
chunk_exists_never(hash) == FALSE

chunk_exists(hash) == hash \in DOMAIN chunks

\* A store_chunk that replaces the row of a hash that is already there.
store_chunk_replace(hash, path, original_size, stored_size, compression, encrypted) ==
    [h \in DOMAIN chunks \cup {hash} |->
        IF h = hash
        THEN [storage_path |-> path, original_size |-> original_size,
              stored_size |-> stored_size, compression |-> compression,
              encrypted |-> encrypted, ref_count |-> 1]
        ELSE chunks[h]]

\* Database::store_chunk: INSERT OR IGNORE, then an increment of ref_count when
\* the row was already there, in one transaction. The new chunks table.
store_chunk(hash, path, original_size, stored_size, compression, encrypted) ==
    IF hash \in DOMAIN chunks
    THEN [chunks EXCEPT ![hash].ref_count = @ + 1]
    ELSE chunks @@ (hash :> [storage_path |-> path,
                             original_size |-> original_size,
                             stored_size |-> stored_size,
                             compression |-> compression,
                             encrypted |-> encrypted,
                             ref_count |-> 1])

\* A store_file_manifest whose chunk rows are not tied to its own header: they
\* are those of the newest header of another job, if there is one.
store_file_manifest_untied(job_id, manifest, failAt) ==
    [ok |-> TRUE,
     table |-> IF manifests # <<>> /\ manifests[Len(manifests)].job_id # job_id
               THEN Append(manifests, [manifest EXCEPT !.job_id = job_id,
                                                       !.chunks = manifests[Len(manifests)].chunks])
               ELSE Append(manifests, [manifest EXCEPT !.job_id = job_id])]

\* The rows store_file_manifest has inserted when its statement failAt fails
\* (0: none fails; 1: BEGIN or the header INSERT; k + 1: the INSERT of chunk
\* row k; number of chunk rows + 2: COMMIT).
InsertedRows(job_id, manifest, failAt) ==
    LET n == IF failAt = 0 THEN Len(manifest.chunks)
             ELSE Min(failAt - 2, Len(manifest.chunks))
    IN  IF failAt = 1 THEN manifests
        ELSE Append(manifests, [manifest EXCEPT !.job_id = job_id,
                                                !.chunks = SubSeq(manifest.chunks, 1, n)])

\* A store_file_manifest whose failure leaves the rows it inserted.
store_file_manifest_no_rollback(job_id, manifest, failAt) ==
    [ok |-> failAt = 0, table |-> InsertedRows(job_id, manifest, failAt)]

\* Database::store_file_manifest: the header and its chunk rows in one
\* Transaction; every `return false` leaves through ~Transaction (ROLLBACK).
store_file_manifest(job_id, manifest, failAt) ==
    [ok |-> failAt = 0,
     table |-> IF failAt = 0 THEN InsertedRows(job_id, manifest, failAt) ELSE manifests]

get_file_manifests(job_id) ==
    SelectSeq(manifests, LAMBDA m : m.job_id = job_id)

\* Database::update_job_status on the jobs table t: error_message is written
\* only with COMPLETED and FAILED.
update_job_status(t, job_id, status, error) ==
    IF job_id \notin DOMAIN t THEN t
    ELSE IF status \in {"COMPLETED", "FAILED"}
         THEN [t EXCEPT ![job_id].status = status, ![job_id].error_message = error]
         ELSE [t EXCEPT ![job_id].status = status]

update_job_stats(t, job_id, total_bytes, processed_bytes, stored_bytes, dedup_savings, file_count) ==
    [t EXCEPT ![job_id].total_bytes = total_bytes,
              ![job_id].processed_bytes = processed_bytes,
              ![job_id].stored_bytes = stored_bytes,
              ![job_id].dedup_savings = dedup_savings,
              ![job_id].file_count = file_count]

\* Database::create_job: the row of a new job.
NewJobRow(comp, enc) ==
    [status |-> "PENDING", compression |-> comp, encrypt |-> enc,
     total_bytes |-> 0, processed_bytes |-> 0, stored_bytes |-> 0,
     dedup_savings |-> 0, file_count |-> 0, error_message |-> ""]

\* ------------------------------------------------------------ snapshot_manager.h
\* No directory snap_<job_id>_<created_at> under the snapshot root.
NoSnapshot == [dir |-> FALSE, files |-> <<>>]

\* SnapshotManager::create_snapshot of a source directory that is there:
\* mkdir_p, then snapshot_directory, which mirrors file i by link() where
\* links[i], and by copy_file where link() fails. A mirrored file is the bytes
\* read through its snapshot path and the source file whose inode it shares
\* (inode 0: none, it is a copy).
create_snapshot(links) ==
    [dir |-> TRUE,
     files |-> [i \in 1 .. Len(srcTree) |->
                   [inode |-> IF links[i] THEN i ELSE 0, bytes |-> srcTree[i]]]]

\* create_snapshot of a source path that is not there: mkdir_p, then the
\* failing stat and is_consistent = false.
create_snapshot_missing == [dir |-> TRUE, files |-> <<>>]

\* A file mirrored by link() in every snapshot.
AllLinked == [i \in 1 .. MaxFiles |-> TRUE]

\* SnapshotManager::list_files and the bytes behind a listed path.
SnapshotFile(j, i) == snapshots[j].files[i].bytes

\* The snapshot directories after a change of the bytes of source file i in
\* place: a file mirrored by link() shares the inode and shows the new bytes.
WrittenThrough(i, content) ==
    [j \in JobIds |->
        [snapshots[j] EXCEPT !.files =
            [k \in DOMAIN snapshots[j].files |->
                IF snapshots[j].files[k].inode = i
                THEN [snapshots[j].files[k] EXCEPT !.bytes = content]
                ELSE snapshots[j].files[k]]]]

\* The snapshot directories after the path of source file i was unlinked (del:
\* the later source files move up) or given to another inode: a file mirrored
\* by link() keeps the inode, which no source path names any more.
Unlinked(i, del) ==
    [j \in JobIds |->
        [snapshots[j] EXCEPT !.files =
            [k \in DOMAIN snapshots[j].files |->
                LET f == snapshots[j].files[k]
                IN  IF f.inode = i THEN [f EXCEPT !.inode = 0]
                    ELSE IF del /\ f.inode > i THEN [f EXCEPT !.inode = @ - 1]
                    ELSE f]]]

\* The environment writes to source file i in place or truncates it
\* (open without a new inode), leaving content.
WriteSource(i, content) ==
    /\ Len(faults) < MaxFaults
    /\ i \in DOMAIN srcTree
    /\ content # srcTree[i]
    /\ faults' = Append(faults, IF Len(content) < Len(srcTree[i])
                                THEN "src_truncate" ELSE "src_write")
    /\ srcTree' = [srcTree EXCEPT ![i] = content]
    /\ snapshots' = WrittenThrough(i, content)
    /\ lastOp' = lastOp
    /\ UNCHANGED <<jobs, chunks, manifests, encryption_keys, chunkFiles, wk>>

\* The environment replaces source file i by a new file (rename over the path).
ReplaceSource(i, content) ==
    /\ Len(faults) < MaxFaults
    /\ i \in DOMAIN srcTree
    /\ faults' = Append(faults, "src_replace")
    /\ srcTree' = [srcTree EXCEPT ![i] = content]
    /\ snapshots' = Unlinked(i, FALSE)
    /\ lastOp' = lastOp
    /\ UNCHANGED <<jobs, chunks, manifests, encryption_keys, chunkFiles, wk>>

\* The environment deletes source file i.
DeleteSource(i) ==
    /\ Len(faults) < MaxFaults
    /\ i \in DOMAIN srcTree
    /\ faults' = Append(faults, "src_delete")
    /\ srcTree' = SubSeq(srcTree, 1, i - 1) \o SubSeq(srcTree, i + 1, Len(srcTree))
    /\ snapshots' = Unlinked(i, TRUE)
    /\ lastOp' = lastOp
    /\ UNCHANGED <<jobs, chunks, manifests, encryption_keys, chunkFiles, wk>>

\* ------------------------------------------------------------------- worker.h
IdleWorker ==
    [pc |-> "none", key |-> 0, file |-> 0, pos |-> 0, offset |-> 0, chunk_idx |-> 0,
     mchunks |-> <<>>, file_size |-> 0, file_hash |-> 0,
     total_bytes |-> 0, processed |-> 0, stored_bytes |-> 0, dedup_savings |-> 0,
     after |-> {}, rows |-> 0, sent |-> <<>>]

\* A send_progress that puts the message in front of those written before.
send_progress_in_front(mq, type, v1, v2) ==
    <<[type |-> type, value1 |-> v1, value2 |-> v2]>> \o mq

\* BackupWorker::send_progress through MessageQueue::send: the message is
\* written to the pipe behind those written before. mq is what this worker
\* wrote so far.
send_progress(mq, type, v1, v2) ==
    Append(mq, [type |-> type, value1 |-> v1, value2 |-> v2])

RECURSIVE SumLen(_)
SumLen(files) ==
    IF files = <<>> THEN 0 ELSE Len(files[1]) + SumLen(Tail(files))

\* The window ChunkStore::store_file reads next (file.read of CHUNK_SIZE bytes).
Window(j) ==
    LET f == SnapshotFile(j, wk[j].file)
    IN  SubSeq(f, wk[j].pos + 1, Min(wk[j].pos + ChunkWindow, Len(f)))

\* The ChunkInfo store_file builds for the window.
ChunkInfo(j, dedup) ==
    [hash |-> Sha256(Window(j)), offset |-> wk[j].offset, size |-> Len(Window(j)),
     chunk_index |-> wk[j].chunk_idx, deduplicated |-> dedup]

\* manifest.chunks.push_back(ci); offset += chunk_size; ++chunk_idx, and the
\* stream past the window.
Pushed(j, dedup) ==
    [wk[j] EXCEPT !.mchunks = Append(@, ChunkInfo(j, dedup)),
                  !.offset = @ + Len(Window(j)),
                  !.chunk_idx = @ + 1,
                  !.pos = @ + Len(Window(j)),
                  !.pc = "chunk"]

\* The `continue` of the chunk loop: the stream is past the window, the manifest,
\* offset and chunk_idx are as they were.
Skipped(j) ==
    [wk[j] EXCEPT !.pos = @ + Len(Window(j)), !.pc = "chunk"]

NoOp == [op |-> "none"]

\* JobScheduler::submit_job as far as the metadata store sees it (create_job);
\* key is the aes_key_ of the orchestrator that will run the job. The names of
\* keys and of the two compression libraries are interchangeable, so they are
\* introduced in a fixed order: a key AES256::generate_key drew is numbered by
\* its first use in an encrypting job (a job that does not encrypt never reads
\* its key, 0 here), and ZSTD is not used before LZ4.
Submit(comp, enc, key) ==
    /\ Len(jobs) < MaxJobs
    /\ enc \/ key = 1
    /\ \A k \in 1 .. key - 1 : \E j \in DOMAIN jobs : wk[j].key = k
    /\ comp = "ZSTD" => \E j \in DOMAIN jobs : jobs[j].compression = "LZ4"
    /\ jobs' = Append(jobs, NewJobRow(comp, enc))
    /\ wk' = [wk EXCEPT ![Len(jobs) + 1] =
                  [IdleWorker EXCEPT !.pc = "idle", !.key = IF enc THEN key ELSE 0]]
    /\ lastOp' = NoOp
    /\ UNCHANGED <<srcTree, snapshots, chunks, manifests, encryption_keys, chunkFiles, faults>>

\* The stat and the hash pass at the head of store_file, for file i of the
\* snapshot (0 beyond the last file).
FileSize(files, i) == IF i \in DOMAIN files THEN Len(files[i].bytes) ELSE 0
FileHash(files, i) == IF i \in DOMAIN files THEN Sha256(files[i].bytes) ELSE 0

\* BackupWorker::execute up to the chunk loop of the first file: RUNNING, the
\* snapshot, the file list and the total size, the stat and the hash pass of
\* the first file.
StartWorker(j, links) ==
    /\ wk[j].pc = "idle"
    /\ jobs' = update_job_status(jobs, j, "RUNNING", "")
    /\ LET snap == create_snapshot(links)
       IN  /\ snapshots' = [snapshots EXCEPT ![j] = snap]
           /\ wk' = [wk EXCEPT ![j].pc = IF snap.files = <<>> THEN "finish" ELSE "chunk",
                               ![j].file = 1,
                               ![j].file_size = FileSize(snap.files, 1),
                               ![j].file_hash = FileHash(snap.files, 1),
                               ![j].total_bytes = SumLen(srcTree),
                               ![j].sent = send_progress(@, "JOB_START", 0, 0),
                               ![j].after = {i \in DOMAIN jobs : jobs[i].status = "COMPLETED"}]
    /\ lastOp' = NoOp
    /\ UNCHANGED <<srcTree, chunks, manifests, encryption_keys, chunkFiles, faults>>

\* BackupWorker::execute when create_snapshot is not consistent (the source path
\* is missing): RUNNING, the snapshot directory, then FAILED and the return.
StartWorkerFails(j) ==
    /\ wk[j].pc = "idle"
    /\ Len(faults) < MaxFaults
    /\ faults' = Append(faults, "snapshot")
    /\ snapshots' = [snapshots EXCEPT ![j] = create_snapshot_missing]
    /\ jobs' = update_job_status(update_job_status(jobs, j, "RUNNING", ""),
                                 j, "FAILED", "Failed to create snapshot")
    /\ wk' = [wk EXCEPT ![j].pc = "failed",
                        ![j].sent = send_progress(send_progress(@, "JOB_START", 0, 0),
                                                  "JOB_FAILED", 0, 0)]
    /\ lastOp' = NoOp
    /\ UNCHANGED <<srcTree, chunks, manifests, encryption_keys, chunkFiles>>

\* store_file, one turn of the chunk loop up to the deduplication check: a chunk
\* whose hash is in the chunks table is referenced and not written.
ReadChunk(j) ==
    /\ wk[j].pc = "chunk"
    /\ wk[j].pos < Len(SnapshotFile(j, wk[j].file))
    /\ wk' = [wk EXCEPT ![j] = IF chunk_exists(Sha256(Window(j)))
                               THEN Pushed(j, TRUE)
                               ELSE [wk[j] EXCEPT !.pc = "write"]]
    /\ lastOp' = NoOp
    /\ UNCHANGED <<srcTree, snapshots, jobs, chunks, manifests, encryption_keys, chunkFiles, faults>>

\* The bytes store_file writes for the window: compressed (raw when the
\* compression fails), then encrypted.
Processed(j, compFails) ==
    LET chunk_data == Raw(Window(j))
        compressed == compress(chunk_data, jobs[j].compression, compFails)
    IN  IF compressed = NoBytes THEN chunk_data ELSE compressed

\* store_file, the rest of the turn for a chunk that is not in the table: the
\* transform pipeline, the write of the chunk file, db_.store_chunk (its result
\* is not looked at) and the push of the ChunkInfo. fault is the failure
\* injected: of the compression, of the encryption, of the open, or of the
\* store_chunk transaction.
WriteChunk(j, fault) ==
    /\ wk[j].pc = "write"
    /\ fault # "none" => Len(faults) < MaxFaults
    /\ fault = "compress" => jobs[j].compression # "NONE"
    /\ fault = "encrypt" => jobs[j].encrypt
    /\ faults' = IF fault = "none" THEN faults ELSE Append(faults, fault)
    /\ LET hash == Sha256(Window(j))
           processed == Processed(j, fault = "compress")
           written == IF jobs[j].encrypt
                      THEN encrypt(processed, wk[j].key, fault = "encrypt")
                      ELSE processed
       IN  IF (jobs[j].encrypt /\ written = NoBytes) \/ fault = "open"
           THEN /\ wk' = [wk EXCEPT ![j] = Skipped(j)]
                /\ UNCHANGED <<chunkFiles, chunks>>
           ELSE /\ chunkFiles' = [p \in DOMAIN chunkFiles \cup {get_chunk_path(hash)} |->
                                    IF p = get_chunk_path(hash) THEN written
                                    ELSE chunkFiles[p]]
                /\ chunks' = IF fault = "db" THEN chunks
                             ELSE store_chunk(hash, get_chunk_path(hash), Len(Window(j)),
                                              ByteLen(written), jobs[j].compression,
                                              jobs[j].encrypt)
                /\ wk' = [wk EXCEPT ![j] = Pushed(j, FALSE)]
    /\ lastOp' = NoOp
    /\ UNCHANGED <<srcTree, snapshots, jobs, manifests, encryption_keys>>

\* BackupWorker::execute, the tally over the manifest store_file returned.
RECURSIVE TallyStored(_, _)
TallyStored(refs, table) ==
    IF refs = <<>> THEN 0
    ELSE (IF ~refs[1].deduplicated /\ refs[1].hash \in DOMAIN table
          THEN table[refs[1].hash].stored_size ELSE 0) + TallyStored(Tail(refs), table)

RECURSIVE TallyDedup(_)
TallyDedup(refs) ==
    IF refs = <<>> THEN 0
    ELSE (IF refs[1].deduplicated THEN refs[1].size ELSE 0) + TallyDedup(Tail(refs))

\* store_file after the chunk loop (store_file_manifest, its result is not
\* looked at) and the worker's tally and progress for the file. failAt is the
\* statement of store_file_manifest that fails, 0 for none.
EndFile(j, failAt) ==
    /\ wk[j].pc = "chunk"
    /\ wk[j].pos >= Len(SnapshotFile(j, wk[j].file))
    /\ failAt \in 0 .. Len(wk[j].mchunks) + 2
    /\ failAt # 0 => Len(faults) < MaxFaults
    /\ faults' = IF failAt = 0 THEN faults ELSE Append(faults, "manifest")
    /\ LET files == snapshots[j].files
           manifest == [job_id |-> j, file_path |-> wk[j].file,
                        file_size |-> wk[j].file_size, file_hash |-> wk[j].file_hash,
                        chunks |-> wk[j].mchunks]
       IN  /\ manifests' = store_file_manifest(j, manifest, failAt).table
           /\ wk' = [wk EXCEPT ![j].stored_bytes = @ + TallyStored(manifest.chunks, chunks),
                               ![j].dedup_savings = @ + TallyDedup(manifest.chunks),
                               ![j].processed = @ + manifest.file_size,
                               ![j].sent = send_progress(@, "JOB_PROGRESS",
                                                         wk[j].processed + manifest.file_size,
                                                         wk[j].total_bytes),
                               ![j].file = @ + 1,
                               ![j].file_size = FileSize(files, wk[j].file + 1),
                               ![j].file_hash = FileHash(files, wk[j].file + 1),
                               ![j].pos = 0, ![j].offset = 0, ![j].chunk_idx = 0,
                               ![j].mchunks = <<>>,
                               ![j].pc = IF wk[j].file < Len(files) THEN "chunk" ELSE "finish"]
    /\ lastOp' = NoOp
    /\ UNCHANGED <<srcTree, snapshots, jobs, chunks, encryption_keys, chunkFiles>>

\* A store_encryption_key that stores nothing.
store_encryption_key_skip(job_id, key_hex) == encryption_keys

\* Database::store_encryption_key: INSERT OR REPLACE of the job's key row. The
\* new encryption_keys table.
store_encryption_key(job_id, key_hex) == [encryption_keys EXCEPT ![job_id] = key_hex]

\* BackupWorker::execute after the file loop, for a job that encrypts:
\* store_encryption_key, whose result is not looked at. failed is the failure
\* injected into the call.
StoreKey(j, failed) ==
    /\ wk[j].pc = "finish"
    /\ jobs[j].encrypt
    /\ failed => Len(faults) < MaxFaults
    /\ faults' = IF failed THEN Append(faults, "key") ELSE faults
    /\ encryption_keys' = IF failed THEN encryption_keys
                          ELSE store_encryption_key(j, wk[j].key)
    /\ wk' = [wk EXCEPT ![j].pc = "stats"]
    /\ lastOp' = NoOp
    /\ UNCHANGED <<srcTree, snapshots, jobs, chunks, manifests, chunkFiles>>

\* BackupWorker::execute to its end: the counters, COMPLETED, remove_snapshot.
FinishWorker(j) ==
    /\ wk[j].pc = "stats" \/ (wk[j].pc = "finish" /\ ~jobs[j].encrypt)
    /\ jobs' = update_job_status(
                   update_job_stats(jobs, j, wk[j].total_bytes, wk[j].processed,
                                    wk[j].stored_bytes, wk[j].dedup_savings,
                                    Len(snapshots[j].files)),
                   j, "COMPLETED", "")
    /\ snapshots' = [snapshots EXCEPT ![j] = NoSnapshot]
    /\ wk' = [wk EXCEPT ![j].pc = "done", ![j].rows = Cardinality(DOMAIN chunks),
                        ![j].sent = send_progress(@, "JOB_COMPLETE", wk[j].processed,
                                                  wk[j].total_bytes)]
    /\ lastOp' = NoOp
    /\ UNCHANGED <<srcTree, chunks, manifests, encryption_keys, chunkFiles, faults>>

\* ------------------------------------------------------- chunk_store.h, restore
\* ChunkStore::restore_file, one chunk: the decoded bytes, or <<>> for each
\* `return false` of the loop body. comp and encrypted are the job's settings.
RestoredChunk(ref, comp, encrypted, key, lucky) ==
    IF ref.hash \notin DOMAIN chunks THEN <<>>
    ELSE IF chunks[ref.hash].storage_path \notin DOMAIN chunkFiles THEN <<>>
    ELSE LET read == chunkFiles[chunks[ref.hash].storage_path]
             plain == IF encrypted THEN decrypt(read, key, lucky) ELSE read
             data == IF plain = NoBytes THEN <<>>
                     ELSE decompress(plain, ref.size, comp, lucky)
         IN  IF Sha256(data) # ref.hash THEN <<>> ELSE data

\* The loop of restore_file over manifest.chunks: what is written to the
\* destination, and whether the loop ran to its end.
RECURSIVE RestoredChunks(_, _, _, _, _)
RestoredChunks(refs, comp, encrypted, key, lucky) ==
    IF refs = <<>> THEN [ok |-> TRUE, bytes |-> <<>>]
    ELSE LET data == RestoredChunk(refs[1], comp, encrypted, key, lucky)
             rest == RestoredChunks(Tail(refs), comp, encrypted, key, lucky)
         IN  IF data = <<>> THEN [ok |-> FALSE, bytes |-> <<>>]
             ELSE [ok |-> rest.ok, bytes |-> data \o rest.bytes]

\* restore_file without the whole-file hash check.
restore_file_unverified(manifest, comp, encrypted, key, lucky) ==
    LET out == RestoredChunks(manifest.chunks, comp, encrypted, key, lucky)
    IN  [path |-> manifest.file_path, ok |-> out.ok, bytes |-> out.bytes,
         file_size |-> manifest.file_size]

\* ChunkStore::restore_file: the chunk loop, then the whole-file hash.
restore_file(manifest, comp, encrypted, key, lucky) ==
    LET out == RestoredChunks(manifest.chunks, comp, encrypted, key, lucky)
    IN  [path |-> manifest.file_path,
         ok |-> out.ok /\ Sha256(out.bytes) = manifest.file_hash,
         bytes |-> out.bytes,
         file_size |-> manifest.file_size]

\* ---------------------------------------------------------- restore_engine.h
RECURSIVE SumRestored(_)
SumRestored(files) ==
    IF files = <<>> THEN 0
    ELSE (IF files[1].ok THEN files[1].file_size ELSE 0) + SumRestored(Tail(files))

\* A RestoreResult returned before the manifest loop: an error, nothing restored,
\* the destination not touched.
Failure(job_id) ==
    [op |-> "restore", job_id |-> job_id, success |-> FALSE, files_restored |-> 0,
     bytes_restored |-> 0, error |-> TRUE, files |-> <<>>, dest_created |-> FALSE]

\* The manifest loop of restore_job for the manifests ms of a job: mkdir_p of
\* the destination, then restore_file for every manifest, whatever the result
\* of the one before. files are the files written, in the order of the loop.
RestoreManifests(job_id, ms, lucky) ==
    LET files == [i \in 1 .. Len(ms) |->
                     restore_file(ms[i], jobs[job_id].compression, jobs[job_id].encrypt,
                                  encryption_keys[job_id], lucky)]
        restored == SelectSeq(files, LAMBDA f : f.ok)
    IN  [op |-> "restore", job_id |-> job_id,
         success |-> Len(restored) > 0,
         files_restored |-> Len(restored),
         bytes_restored |-> SumRestored(files),
         error |-> Len(restored) < Len(files),
         files |-> files,
         dest_created |-> TRUE]

\* A restore_job that restores whatever manifests a job has, whatever its status.
restore_job_any_status(job_id, lucky) ==
    IF job_id \notin DOMAIN jobs THEN Failure(job_id)
    ELSE IF get_file_manifests(job_id) = <<>> THEN Failure(job_id)
    ELSE RestoreManifests(job_id, get_file_manifests(job_id), lucky)

\* A restore_job whose manifest loop ends with the first manifest.
restore_job_first_only(job_id, lucky) ==
    IF job_id \notin DOMAIN jobs THEN Failure(job_id)
    ELSE IF jobs[job_id].status # "COMPLETED" THEN Failure(job_id)
    ELSE IF jobs[job_id].encrypt /\ encryption_keys[job_id] = 0 THEN Failure(job_id)
    ELSE IF get_file_manifests(job_id) = <<>>
    THEN [Failure(job_id) EXCEPT !.success = TRUE]
    ELSE RestoreManifests(job_id, SubSeq(get_file_manifests(job_id), 1, 1), lucky)

\* RestoreEngine::restore_job
restore_job(job_id, lucky) ==
    IF job_id \notin DOMAIN jobs THEN Failure(job_id)
    ELSE IF jobs[job_id].status # "COMPLETED" THEN Failure(job_id)
    ELSE IF jobs[job_id].encrypt /\ encryption_keys[job_id] = 0 THEN Failure(job_id)
    ELSE IF get_file_manifests(job_id) = <<>>
    THEN [Failure(job_id) EXCEPT !.success = TRUE]
    ELSE RestoreManifests(job_id, get_file_manifests(job_id), lucky)

\* A verification that also looks into the chunk files.
VerifiedChunksDeep(refs) ==
    \A k \in 1 .. Len(refs) :
        /\ refs[k].hash \in DOMAIN chunks
        /\ chunks[refs[k].hash].storage_path \in DOMAIN chunkFiles
        /\ ~chunkFiles[chunks[refs[k].hash].storage_path].bad
        /\ Sha256(chunkFiles[chunks[refs[k].hash].storage_path].data) = refs[k].hash

\* RestoreEngine::verify_backup, the loop over one manifest's chunks.
RECURSIVE VerifiedChunks(_)
VerifiedChunks(refs) ==
    IF refs = <<>> THEN TRUE
    ELSE IF refs[1].hash \notin DOMAIN chunks THEN FALSE
    ELSE IF chunks[refs[1].hash].storage_path \notin DOMAIN chunkFiles THEN FALSE
    ELSE VerifiedChunks(Tail(refs))

RECURSIVE VerifiedManifests(_)
VerifiedManifests(ms) ==
    IF ms = <<>> THEN TRUE
    ELSE IF ~VerifiedChunks(ms[1].chunks) THEN FALSE
    ELSE VerifiedManifests(Tail(ms))

\* RestoreEngine::verify_backup
verify_backup(job_id) ==
    IF job_id \notin DOMAIN jobs \/ jobs[job_id].status # "COMPLETED" THEN FALSE
    ELSE VerifiedManifests(get_file_manifests(job_id))

\* A call of restore_job into an empty destination (the CLI's --restore).
RestoreJob(job_id, lucky) ==
    /\ lastOp' = restore_job(job_id, lucky)
    /\ UNCHANGED <<srcTree, snapshots, jobs, chunks, manifests, encryption_keys, chunkFiles, wk, faults>>

\* A call of verify_backup (the CLI's --verify).
VerifyBackup(job_id) ==
    /\ lastOp' = [op |-> "verify", job_id |-> job_id, ok |-> verify_backup(job_id)]
    /\ UNCHANGED <<srcTree, snapshots, jobs, chunks, manifests, encryption_keys, chunkFiles, wk, faults>>

\* ------------------------------------------------------------- the environment
\* One byte of a chunk file flipped. In a raw chunk file the byte is one of the
\* data; in a compressed or encrypted one the term is marked.
FlipByte(b) == (b + 1) % (MaxByte + 2)

Flipped(term, i) ==
    IF term.enc \/ term.comp # "NONE" THEN [term EXCEPT !.bad = TRUE]
    ELSE [term EXCEPT !.data[i] = FlipByte(@)]

Tamper(path, i) ==
    /\ path \in DOMAIN chunkFiles
    /\ i \in 1 .. Len(chunkFiles[path].data)
    /\ chunkFiles[path].enc \/ chunkFiles[path].comp # "NONE" => i = 1
    /\ Len(faults) < MaxFaults
    /\ faults' = Append(faults, "tamper")
    /\ chunkFiles' = [chunkFiles EXCEPT ![path] = Flipped(@, i)]
    /\ lastOp' = NoOp
    /\ UNCHANGED <<srcTree, snapshots, jobs, chunks, manifests, encryption_keys, wk>>

\* A chunk file removed from the storage directory.
DeleteChunkFile(path) ==
    /\ path \in DOMAIN chunkFiles
    /\ Len(faults) < MaxFaults
    /\ faults' = Append(faults, "delete")
    /\ chunkFiles' = [p \in DOMAIN chunkFiles \ {path} |-> chunkFiles[p]]
    /\ lastOp' = NoOp
    /\ UNCHANGED <<srcTree, snapshots, jobs, chunks, manifests, encryption_keys, wk>>

\* ---------------------------------------------------------------------- dag.h
\* DAG<int>: g is [adj, in_degree], two maps over the nodes.
EmptyDAG == [adj |-> <<>>, in_degree |-> <<>>]

add_node(g, node) ==
    IF node \in DOMAIN g.adj THEN g
    ELSE [adj |-> g.adj @@ (node :> {}), in_degree |-> g.in_degree @@ (node :> 0)]

\* The nodes the breadth-first search of has_path visits from the set seen.
RECURSIVE Reach(_, _)
Reach(g, seen) ==
    LET more == seen \cup UNION {g.adj[n] : n \in seen \cap DOMAIN g.adj}
    IN  IF more = seen THEN seen ELSE Reach(g, more)

\* A has_path that looks only at the edges leaving its first node.
has_path_direct(g, from, to) == from \in DOMAIN g.adj /\ to \in g.adj[from]

has_path(g, from, to) == to \in Reach(g, {from})

\* add_edge(from, to): the graph afterwards, and the value returned. The count
\* in_degree_[to] goes up also when the edge was there already.
add_edge(g, from, to) ==
    LET g2 == add_node(add_node(g, from), to)
    IN  IF from = to \/ has_path(g2, to, from) THEN [g |-> g2, ok |-> FALSE]
        ELSE [g |-> [adj |-> [g2.adj EXCEPT ![from] = @ \cup {to}],
                     in_degree |-> [g2.in_degree EXCEPT ![to] = @ + 1]],
              ok |-> TRUE]

remove_node(g, node) ==
    LET dests == IF node \in DOMAIN g.adj THEN g.adj[node] ELSE {}
        rest == DOMAIN g.adj \ {node}
    IN  [adj |-> [n \in rest |-> g.adj[n] \ {node}],
         in_degree |-> [n \in DOMAIN g.in_degree \ {node} |->
                           IF n \in dests THEN g.in_degree[n] - 1 ELSE g.in_degree[n]]]

\* remove_edge(from, to): the graph afterwards, and the value returned.
remove_edge(g, from, to) ==
    IF from \notin DOMAIN g.adj THEN [g |-> g, ok |-> FALSE]
    ELSE IF to \in g.adj[from]
    THEN [g |-> [adj |-> [g.adj EXCEPT ![from] = @ \ {to}],
                 in_degree |-> [g.in_degree EXCEPT ![to] = @ - 1]],
          ok |-> TRUE]
    ELSE [g |-> g, ok |-> FALSE]

\* The edge from -> to is in adj_.
has_edge(g, from, to) == from \in DOMAIN g.adj /\ to \in g.adj[from]

get_ready_nodes(g) == {n \in DOMAIN g.in_degree : g.in_degree[n] = 0}

get_dependents(g, node) == IF node \in DOMAIN g.adj THEN g.adj[node] ELSE {}

\* ----------------------------------------------------------- job_scheduler.h
SchedJobIds == 1 .. MaxSchedJobs

\* The jobs in the order get_ready_jobs returns them: all jobs have the default
\* priority, and created_at grows with job_id.
RECURSIVE SortedJobs(_)
SortedJobs(S) ==
    IF S = {} THEN <<>>
    ELSE LET first == CHOOSE n \in S : \A m \in S : n <= m
         IN  <<first>> \o SortedJobs(S \ {first})

\* get_ready_jobs without the test of the persisted status.
get_ready_jobs_any_status ==
    {n \in get_ready_nodes(dep_graph) : n \in DOMAIN jobs /\ n \notin in_progress}

\* JobScheduler::get_ready_jobs: the ready nodes that are PENDING jobs and not
\* in progress.
get_ready_jobs ==
    {n \in get_ready_nodes(dep_graph) :
        n \in DOMAIN jobs /\ jobs[n].status = "PENDING" /\ n \notin in_progress}

\* The error mark_failed passes for a dependent of job_id:
\* "Dependency job " + std::to_string(job_id) + " failed".
DependencyFailed(job_id) == "Dependency job " \o ToString(job_id) \o " failed"

\* The jobs table after JobScheduler::mark_failed: FAILED, and CANCELLED for the
\* dependents, in the order of the calls.
RECURSIVE CancelAll(_, _, _)
CancelAll(t, dependents, job_id) ==
    IF dependents = {} THEN t
    ELSE LET dep == CHOOSE d \in dependents : TRUE
         IN  CancelAll(update_job_status(t, dep, "CANCELLED", DependencyFailed(job_id)),
                       dependents \ {dep}, job_id)

\* mark_failed without the loop over the dependents.
mark_failed_alone(t, job_id) ==
    update_job_status(t, job_id, "FAILED", "Worker process failed")

mark_failed_jobs(t, job_id) ==
    CancelAll(update_job_status(t, job_id, "FAILED", "Worker process failed"),
              get_dependents(dep_graph, job_id), job_id)

\* JobScheduler::submit_job through BackupOrchestrator::submit_job (a BackupJob
\* without dependencies, the default settings), while no run loop is active.
SubmitJob ==
    /\ orch.pc = "idle"
    /\ Len(jobs) < MaxSchedJobs
    /\ jobs' = Append(jobs, NewJobRow("LZ4", TRUE))
    /\ pq' = pq \cup {Len(jobs) + 1}
    /\ dep_graph' = add_node(dep_graph, Len(jobs) + 1)
    /\ lastOp' = NoOp
    /\ UNCHANGED <<storeVars, in_progress, job_dependencies, orch, active_workers,
                   worker_sem, child, execs, cascade>>

\* Database::add_dependency: INSERT OR IGNORE into job_dependencies, whose two
\* columns are foreign keys into jobs (PRAGMA foreign_keys=ON): the row of a pair
\* that names an unknown job is not inserted. The new table.
add_dependency(job_id, depends_on) ==
    IF job_id \in DOMAIN jobs /\ depends_on \in DOMAIN jobs
    THEN job_dependencies \cup {<<job_id, depends_on>>}
    ELSE job_dependencies

\* JobScheduler::add_dependency(job_id, depends_on) between two submitted jobs,
\* while no run loop is active: add_dependency_internal, which does not look at
\* the database's answer.
AddDependency(job_id, depends_on) ==
    /\ orch.pc = "idle"
    /\ job_id \in DOMAIN jobs /\ depends_on \in DOMAIN jobs
    /\ Cardinality(job_dependencies) < MaxDeps
    /\ job_id \in DOMAIN dep_graph.in_degree => dep_graph.in_degree[job_id] < MaxDeps
    /\ LET added == add_edge(dep_graph, depends_on, job_id)
       IN  /\ dep_graph' = added.g
           /\ job_dependencies' = IF added.ok
                                  THEN add_dependency(job_id, depends_on)
                                  ELSE job_dependencies
           /\ lastOp' = [op |-> "add_dependency", job_id |-> job_id,
                         depends_on |-> depends_on, ok |-> added.ok]
    /\ UNCHANGED <<storeVars, jobs, in_progress, pq, orch, active_workers,
                   worker_sem, child, execs, cascade>>

\* ------------------------------------------------------------- orchestrator.h
\* The direct dependents registered for job_id that are still PENDING and were
\* never executed (history).
Waiting(job_id) ==
    {<<job_id, j>> : j \in {i \in DOMAIN jobs : /\ <<i, job_id>> \in job_dependencies
                                                /\ jobs[i].status = "PENDING"
                                                /\ execs[i] = 0}}

\* A call of run_single_threaded or run_multi_process.
StartRun(mode) ==
    /\ orch.pc = "idle"
    /\ jobs # <<>>
    /\ orch' = [pc |-> "loop", mode |-> mode, ready |-> <<>>]
    /\ cascade' = {}
    /\ lastOp' = NoOp
    /\ UNCHANGED <<storeVars, jobs, dep_graph, in_progress, pq, job_dependencies,
                   active_workers, worker_sem, child, execs>>

\* One turn of either `while (running_)` loop up to its for loop: get_ready_jobs,
\* then the break when nothing is ready and nothing is left to wait for, the
\* sleep when nothing is ready, or the entry into the for loop.
GetReady ==
    /\ orch.pc = "loop"
    /\ LET ready == get_ready_jobs
           pending == {j \in DOMAIN jobs : jobs[j].status = "PENDING"}
       IN  /\ in_progress' = in_progress \cup ready
           /\ IF ready # {}
              THEN /\ orch' = [orch EXCEPT !.pc = "for", !.ready = SortedJobs(ready)]
                   /\ lastOp' = [op |-> "get_ready_jobs", ready |-> SortedJobs(ready)]
              ELSE IF pending = {} /\ (orch.mode = "single" \/ active_workers = {})
              THEN /\ orch' = [orch EXCEPT !.pc = "idle"]
                   /\ lastOp' = [op |-> "run_end", mode |-> orch.mode]
              ELSE /\ orch' = orch
                   /\ lastOp' = [op |-> "get_ready_jobs", ready |-> <<>>]
    /\ UNCHANGED <<storeVars, jobs, dep_graph, pq, job_dependencies, active_workers,
                   worker_sem, child, execs, cascade>>

\* run_single_threaded, one turn of the for loop: execute_job_direct (the worker
\* sets RUNNING, then COMPLETED, or FAILED when its snapshot is inconsistent),
\* then mark_completed whatever the worker's result.
ExecuteJobDirect(success) ==
    /\ orch.pc = "for"
    /\ orch.mode = "single"
    /\ LET job_id == Head(orch.ready)
       IN  /\ jobs' = IF success
                      THEN update_job_status(jobs, job_id, "COMPLETED", "")
                      ELSE update_job_status(jobs, job_id, "FAILED", "Failed to create snapshot")
           /\ execs' = [execs EXCEPT ![job_id] = @ + 1]
           /\ cascade' = IF success THEN cascade ELSE cascade \cup Waiting(job_id)
           /\ dep_graph' = remove_node(dep_graph, job_id)
           /\ in_progress' = in_progress \ {job_id}
           /\ pq' = pq \ {job_id}
           /\ lastOp' = [op |-> "execute", job_id |-> job_id, mode |-> "single"]
           /\ orch' = [orch EXCEPT !.ready = Tail(@),
                                   !.pc = IF Tail(orch.ready) = <<>> THEN "loop" ELSE "for"]
    /\ UNCHANGED <<storeVars, job_dependencies, active_workers, worker_sem, child>>

\* run_multi_process, one turn of the for loop: the two breaks, or fork_worker
\* (RUNNING, then the fork; a failed fork posts the semaphore and returns).
ForkWorker(forked) ==
    /\ orch.pc = "for"
    /\ orch.mode = "multi"
    /\ LET job_id == Head(orch.ready)
       IN  IF Cardinality(active_workers) >= MaxWorkers \/ worker_sem = 0
           THEN /\ forked
                /\ orch' = [orch EXCEPT !.pc = "loop", !.ready = <<>>]
                /\ lastOp' = NoOp
                /\ UNCHANGED <<jobs, active_workers, worker_sem, child>>
           ELSE /\ jobs' = update_job_status(jobs, job_id, "RUNNING", "")
                /\ active_workers' = IF forked THEN active_workers \cup {job_id}
                                     ELSE active_workers
                /\ worker_sem' = IF forked THEN worker_sem - 1 ELSE worker_sem
                /\ child' = IF forked THEN [child EXCEPT ![job_id] = "running"] ELSE child
                /\ lastOp' = IF forked
                             THEN [op |-> "execute", job_id |-> job_id, mode |-> "multi"]
                             ELSE NoOp
                /\ orch' = [orch EXCEPT !.ready = Tail(@),
                                        !.pc = IF Tail(orch.ready) = <<>> THEN "loop" ELSE "for"]
    /\ UNCHANGED <<storeVars, dep_graph, in_progress, pq, job_dependencies, execs, cascade>>

\* The child of fork_worker: BackupWorker::execute and _exit. outcome "crash" is
\* a child that ends before the worker touched the job (the database could not
\* be opened, or a signal).
ChildExecute(job_id, outcome) ==
    /\ child[job_id] = "running"
    /\ jobs' = IF outcome = "success" THEN update_job_status(jobs, job_id, "COMPLETED", "")
               ELSE IF outcome = "failure"
               THEN update_job_status(jobs, job_id, "FAILED", "Failed to create snapshot")
               ELSE jobs
    /\ child' = [child EXCEPT ![job_id] = IF outcome = "success" THEN "exit0" ELSE "exit1"]
    /\ execs' = IF outcome = "crash" THEN execs ELSE [execs EXCEPT ![job_id] = @ + 1]
    /\ cascade' = IF outcome = "success" THEN cascade ELSE cascade \cup Waiting(job_id)
    /\ lastOp' = NoOp
    /\ UNCHANGED <<storeVars, dep_graph, in_progress, pq, job_dependencies, orch,
                   active_workers, worker_sem>>

\* A reap_children that does not post the semaphore.
ReapChild_no_post(job_id) ==
    /\ orch.pc = "loop"
    /\ orch.mode = "multi"
    /\ job_id \in active_workers
    /\ child[job_id] \in {"exit0", "exit1"}
    /\ jobs' = IF child[job_id] = "exit0" THEN jobs ELSE mark_failed_jobs(jobs, job_id)
    /\ dep_graph' = remove_node(dep_graph, job_id)
    /\ in_progress' = in_progress \ {job_id}
    /\ pq' = pq \ {job_id}
    /\ active_workers' = active_workers \ {job_id}
    /\ child' = [child EXCEPT ![job_id] = "reaped"]
    /\ lastOp' = [op |-> IF child[job_id] = "exit0" THEN "mark_completed" ELSE "mark_failed",
                  job_id |-> job_id, dependents |-> get_dependents(dep_graph, job_id)]
    /\ UNCHANGED <<storeVars, job_dependencies, orch, execs, cascade, worker_sem>>

\* reap_children, one child that waitpid returns: mark_completed or mark_failed,
\* the erase from active_workers_ and the post of the semaphore.
ReapChild(job_id) ==
    /\ orch.pc = "loop"
    /\ orch.mode = "multi"
    /\ job_id \in active_workers
    /\ child[job_id] \in {"exit0", "exit1"}
    /\ jobs' = IF child[job_id] = "exit0" THEN jobs ELSE mark_failed_jobs(jobs, job_id)
    /\ dep_graph' = remove_node(dep_graph, job_id)
    /\ in_progress' = in_progress \ {job_id}
    /\ pq' = pq \ {job_id}
    /\ active_workers' = active_workers \ {job_id}
    /\ worker_sem' = worker_sem + 1
    /\ child' = [child EXCEPT ![job_id] = "reaped"]
    /\ lastOp' = [op |-> IF child[job_id] = "exit0" THEN "mark_completed" ELSE "mark_failed",
                  job_id |-> job_id, dependents |-> get_dependents(dep_graph, job_id)]
    /\ UNCHANGED <<storeVars, job_dependencies, orch, execs, cascade>>

\* --------------------------------------------------- database.h, Statement
\* The result codes of sqlite3_step that the callers tell apart.
StepCodes == {"SQLITE_BUSY", "SQLITE_ROW", "SQLITE_DONE", "SQLITE_ERROR"}

\* A prepared statement nobody steps: `seen` are the results of sqlite3_step in
\* the current or last call of step_retry, `slept` the sleeps in milliseconds,
\* `returned` the values the calls of step_retry returned so far (history).
IdleStatement ==
    [pc |-> "idle", attempt |-> 0, max_retries |-> 0, seen |-> <<>>, slept |-> <<>>,
     returned |-> <<>>]

\* One turn of the for loop that takes every result for SQLITE_BUSY.
step_retry_turn_all_busy(st, rc) ==
    LET slept == Append(st.slept, 50 * (st.attempt + 1))
        seen == Append(st.seen, rc)
    IN  IF st.attempt + 1 < st.max_retries
        THEN [st EXCEPT !.attempt = @ + 1, !.seen = seen, !.slept = slept]
        ELSE [st EXCEPT !.pc = "idle", !.attempt = @ + 1, !.seen = seen, !.slept = slept,
                        !.returned = Append(@, "SQLITE_BUSY")]

\* One turn of the for loop of step_retry, entered with attempt < max_retries:
\* sqlite3_step gives rc; a result other than SQLITE_BUSY is returned; else the
\* sleep of 50 * (attempt + 1) ms, ++attempt, and the return of SQLITE_BUSY
\* when the loop condition fails.
step_retry_turn(st, rc) ==
    IF rc # "SQLITE_BUSY"
    THEN [st EXCEPT !.pc = "idle", !.seen = Append(@, rc), !.returned = Append(@, rc)]
    ELSE step_retry_turn_all_busy(st, rc)

\* Statement::step(): step_retry() with the default max_retries, up to the first
\* test of the loop condition.
Step ==
    /\ stmt.pc = "idle"
    /\ Len(stmt.returned) < MaxSteps
    /\ stmt' = [stmt EXCEPT !.pc = "loop", !.attempt = 0, !.max_retries = SQLITE_MAX_RETRIES,
                            !.seen = <<>>, !.slept = <<>>]
    /\ lastOp' = NoOp
    /\ UNCHANGED <<programVars, heap, ring, tree>>

\* One call of sqlite3_step inside step_retry, with the rest of the loop turn.
Sqlite3Step(rc) ==
    /\ stmt.pc = "loop"
    /\ stmt.attempt < stmt.max_retries
    /\ stmt' = step_retry_turn(stmt, rc)
    /\ lastOp' = NoOp
    /\ UNCHANGED <<programVars, heap, ring, tree>>

\* ----------------------------------------------------------- priority_queue.h
\* The entries a scheduler pushes: JobEntry{job_id, priority, created_at}.
\* created_at is now_epoch_ms() at the submission and grows with the job_id;
\* two jobs submitted one after the other share a millisecond.
JobEntries ==
    {[job_id |-> id, priority |-> p, created_at |-> (id + 1) \div 2] :
        id \in 1 .. MaxEntries, p \in 0 .. MaxPriority}

\* JobScheduler::JobCompare, the queue's cmp_: a ranks below b (lower priority,
\* or the same priority and created later).
JobCompare(a, b) ==
    IF a.priority # b.priority THEN a.priority < b.priority
    ELSE a.created_at > b.created_at

\* heap_[idx] with the source's indices, which start at 0.
At(h, idx) == h[idx + 1]

\* std::swap(heap_[i], heap_[k]).
Swap(h, i, k) == [h EXCEPT ![i + 1] = h[k + 1], ![k + 1] = h[i + 1]]

RECURSIVE sift_up(_, _)
sift_up(h, idx) ==
    IF idx > 0
    THEN LET parent == (idx - 1) \div 2
         IN  IF JobCompare(At(h, parent), At(h, idx))
             THEN sift_up(Swap(h, parent, idx), parent)
             ELSE h
    ELSE h

\* A sift_down that never moves anything.
sift_down_off(h, idx) == h

RECURSIVE sift_down(_, _)
sift_down(h, idx) ==
    LET n == Len(h)
        left == 2 * idx + 1
        right == 2 * idx + 2
        best1 == IF left < n /\ JobCompare(At(h, idx), At(h, left)) THEN left ELSE idx
        best == IF right < n /\ JobCompare(At(h, best1), At(h, right)) THEN right ELSE best1
    IN  IF best = idx THEN h ELSE sift_down(Swap(h, idx, best), best)

\* heap_.pop_back().
pop_back(h) == SubSeq(h, 1, Len(h) - 1)

\* PriorityQueue::push: the heap afterwards.
push(h, item) == sift_up(Append(h, item), Len(h))

\* PriorityQueue::pop on a queue that is not empty: the value returned and the
\* heap afterwards.
pop(h) ==
    LET moved == pop_back([h EXCEPT ![1] = h[Len(h)]])
    IN  [top |-> h[1], heap |-> IF moved # <<>> THEN sift_down(moved, 0) ELSE moved]

\* The first index (from 0) whose entry has the job_id, or Len(h): the loops of
\* remove_if and update with the scheduler's predicate e.job_id == job_id.
FirstMatch(h, job_id) ==
    IF \E i \in 1 .. Len(h) : h[i].job_id = job_id
    THEN (CHOOSE i \in 1 .. Len(h) :
              /\ h[i].job_id = job_id
              /\ \A k \in 1 .. i - 1 : h[k].job_id # job_id) - 1
    ELSE Len(h)

\* PriorityQueue::remove_if: the value returned and the heap afterwards.
remove_if(h, job_id) ==
    LET i == FirstMatch(h, job_id)
    IN  IF i = Len(h) THEN [ok |-> FALSE, heap |-> h]
        ELSE LET moved == pop_back([h EXCEPT ![i + 1] = h[Len(h)]])
             IN  [ok |-> TRUE,
                  heap |-> IF i < Len(moved) THEN sift_up(sift_down(moved, i), i) ELSE moved]

\* PriorityQueue::update: the value returned and the heap afterwards.
update(h, job_id, new_val) ==
    LET i == FirstMatch(h, job_id)
    IN  IF i = Len(h) THEN [ok |-> FALSE, heap |-> h]
        ELSE [ok |-> TRUE,
              heap |-> sift_up(sift_down([h EXCEPT ![i + 1] = new_val], i), i)]

\* The calls on a queue of job entries; an entry is pushed under a job_id that
\* is not in the queue.
Push(item) ==
    /\ Len(heap) < MaxEntries
    /\ \A i \in 1 .. Len(heap) : heap[i].job_id # item.job_id
    /\ heap' = push(heap, item)
    /\ lastOp' = [op |-> "push", item |-> item]
    /\ UNCHANGED <<programVars, stmt, ring, tree>>

Pop ==
    /\ heap # <<>>
    /\ heap' = pop(heap).heap
    /\ lastOp' = [op |-> "pop", top |-> pop(heap).top]
    /\ UNCHANGED <<programVars, stmt, ring, tree>>

RemoveIf(job_id) ==
    /\ heap' = remove_if(heap, job_id).heap
    /\ lastOp' = [op |-> "remove_if", job_id |-> job_id, ok |-> remove_if(heap, job_id).ok,
                  index |-> FirstMatch(heap, job_id),
                  back |-> IF heap # <<>> THEN heap[Len(heap)].job_id ELSE 0]
    /\ UNCHANGED <<programVars, stmt, ring, tree>>

\* update with the predicate e.job_id == job_id and the entry re-prioritised.
Update(job_id, priority) ==
    /\ LET i == FirstMatch(heap, job_id)
           new_val == IF i < Len(heap) THEN [At(heap, i) EXCEPT !.priority = priority]
                      ELSE [job_id |-> job_id, priority |-> priority,
                            created_at |-> (job_id + 1) \div 2]
       IN  /\ heap' = update(heap, job_id, new_val).heap
           /\ lastOp' = [op |-> "update", job_id |-> job_id,
                         ok |-> update(heap, job_id, new_val).ok]
    /\ UNCHANGED <<programVars, stmt, ring, tree>>

\* ---------------------------------------------------------- circular_buffer.h
\* The items put into the buffer; 0 is the value-initialised T of a new buf_.
Items == 1 .. MaxItem

\* CircularBuffer(capacity): buf_ of capacity value-initialised items, indexed
\* from 0 as in the source.
NewCircularBuffer ==
    [buf |-> [i \in 0 .. RingCapacity - 1 |-> 0], head |-> 0, tail |-> 0, count |-> 0]

\* std::optional<T>.
Nullopt == [has_value |-> FALSE, value |-> 0]
Some(item) == [has_value |-> TRUE, value |-> item]

\* A push_overwrite that leaves head_ where it is when the buffer is full.
ring_push_overwrite_keep_head(r, item) ==
    [r EXCEPT !.buf[r.tail] = item, !.tail = (r.tail + 1) % RingCapacity,
              !.count = IF r.count = RingCapacity THEN r.count ELSE r.count + 1]

\* CircularBuffer::push: the value returned and the buffer afterwards.
ring_push(r, item) ==
    IF r.count = RingCapacity THEN [ok |-> FALSE, ring |-> r]
    ELSE [ok |-> TRUE,
          ring |-> [r EXCEPT !.buf[r.tail] = item, !.tail = (r.tail + 1) % RingCapacity,
                             !.count = r.count + 1]]

\* CircularBuffer::push_overwrite: the buffer afterwards.
ring_push_overwrite(r, item) ==
    IF r.count = RingCapacity
    THEN [r EXCEPT !.buf[r.tail] = item, !.tail = (r.tail + 1) % RingCapacity,
                   !.head = (r.head + 1) % RingCapacity]
    ELSE [r EXCEPT !.buf[r.tail] = item, !.tail = (r.tail + 1) % RingCapacity,
                   !.count = r.count + 1]

\* CircularBuffer::pop: the value returned and the buffer afterwards.
ring_pop(r) ==
    IF r.count = 0 THEN [item |-> Nullopt, ring |-> r]
    ELSE [item |-> Some(r.buf[r.head]),
          ring |-> [r EXCEPT !.head = (r.head + 1) % RingCapacity, !.count = r.count - 1]]

\* CircularBuffer::clear.
ring_clear(r) == [r EXCEPT !.head = 0, !.tail = 0, !.count = 0]

\* CircularBuffer::last_n: the vector returned.
last_n(r, n) ==
    LET actual == IF n < r.count THEN n ELSE r.count
        start == (r.head + r.count - actual) % RingCapacity
    IN  [i \in 1 .. actual |-> r.buf[(start + (i - 1)) % RingCapacity]]

\* The calls on a CircularBuffer, each under the buffer's mutex.
RingPush(item) ==
    /\ ring' = ring_push(ring, item).ring
    /\ lastOp' = [op |-> "push", item |-> item, ok |-> ring_push(ring, item).ok]
    /\ UNCHANGED <<programVars, stmt, heap, tree>>

RingPushOverwrite(item) ==
    /\ ring' = ring_push_overwrite(ring, item)
    /\ lastOp' = [op |-> "push_overwrite", item |-> item]
    /\ UNCHANGED <<programVars, stmt, heap, tree>>

RingPop ==
    /\ ring' = ring_pop(ring).ring
    /\ lastOp' = [op |-> "pop", item |-> ring_pop(ring).item]
    /\ UNCHANGED <<programVars, stmt, heap, tree>>

RingClear ==
    /\ ring' = ring_clear(ring)
    /\ lastOp' = [op |-> "clear"]
    /\ UNCHANGED <<programVars, stmt, heap, tree>>

RingLastN(n) ==
    /\ lastOp' = [op |-> "last_n", n |-> n, result |-> last_n(ring, n)]
    /\ UNCHANGED <<programVars, stmt, heap, ring, tree>>

\* -------------------------------------------------------------- bplus_tree.h
MAX_KEYS == ORDER - 1

TreeKeys == 1 .. MaxKey
TreeValues == 1 .. MaxValue

\* A node on the heap: a LeafNode uses keys, values and next (0 is nullptr), an
\* InternalNode keys and children; a pointer is the node's index in nodes.
LeafNode == [is_leaf |-> TRUE, keys |-> <<>>, values |-> <<>>, children |-> <<>>, next |-> 0]
InternalNode == [is_leaf |-> FALSE, keys |-> <<>>, values |-> <<>>, children |-> <<>>, next |-> 0]

\* BPlusTree(): an empty leaf as the root.
NewBPlusTree == [nodes |-> <<LeafNode>>, root |-> 1, size |-> 0]

\* vector::insert(begin() + pos, x) and vector::erase(begin() + pos).
InsertAt(v, pos, x) == SubSeq(v, 1, pos) \o <<x>> \o SubSeq(v, pos + 1, Len(v))
EraseAt(v, pos) == SubSeq(v, 1, pos) \o SubSeq(v, pos + 2, Len(v))

\* upper_bound_idx: the binary search, lo and hi as in the source.
RECURSIVE upper_bound_search(_, _, _, _)
upper_bound_search(keys, key, lo, hi) ==
    IF lo < hi
    THEN LET mid == (lo + hi) \div 2
         IN  IF keys[mid + 1] <= key THEN upper_bound_search(keys, key, mid + 1, hi)
             ELSE upper_bound_search(keys, key, lo, mid)
    ELSE lo

upper_bound_idx(keys, key) == upper_bound_search(keys, key, 0, Len(keys))

\* std::lower_bound over the sorted keys of a leaf: the first position whose
\* key is not less than key.
lower_bound(keys, key) == Cardinality({i \in 1 .. Len(keys) : keys[i] < key})

\* insert_internal and erase_internal return without a split.
NoSplit(nodes, existed) ==
    [nodes |-> nodes, split |-> FALSE, split_key |-> 0, new_node |-> 0, existed |-> existed]

\* A split_leaf that does not link the new leaf into the list of leaves.
split_leaf_unlinked(nodes, leaf) ==
    LET mid == Len(nodes[leaf].keys) \div 2
        new_leaf == [LeafNode EXCEPT
                        !.keys = SubSeq(nodes[leaf].keys, mid + 1, Len(nodes[leaf].keys)),
                        !.values = SubSeq(nodes[leaf].values, mid + 1, Len(nodes[leaf].values))]
    IN  [nodes |-> Append([nodes EXCEPT ![leaf].keys = SubSeq(@, 1, mid),
                                        ![leaf].values = SubSeq(@, 1, mid)], new_leaf),
         split |-> TRUE, split_key |-> new_leaf.keys[1], new_node |-> Len(nodes) + 1,
         existed |-> FALSE]

\* split_leaf: the upper half moves to a new leaf that is linked in behind.
split_leaf(nodes, leaf) ==
    LET mid == Len(nodes[leaf].keys) \div 2
        new_leaf == [LeafNode EXCEPT
                        !.keys = SubSeq(nodes[leaf].keys, mid + 1, Len(nodes[leaf].keys)),
                        !.values = SubSeq(nodes[leaf].values, mid + 1, Len(nodes[leaf].values)),
                        !.next = nodes[leaf].next]
    IN  [nodes |-> Append([nodes EXCEPT ![leaf].keys = SubSeq(@, 1, mid),
                                        ![leaf].values = SubSeq(@, 1, mid),
                                        ![leaf].next = Len(nodes) + 1], new_leaf),
         split |-> TRUE, split_key |-> new_leaf.keys[1], new_node |-> Len(nodes) + 1,
         existed |-> FALSE]

\* split_internal: keys[mid] goes up, what is right of it moves to a new node.
split_internal(nodes, node) ==
    LET mid == Len(nodes[node].keys) \div 2
        new_node == [InternalNode EXCEPT
                        !.keys = SubSeq(nodes[node].keys, mid + 2, Len(nodes[node].keys)),
                        !.children = SubSeq(nodes[node].children, mid + 2,
                                            Len(nodes[node].children))]
    IN  [nodes |-> Append([nodes EXCEPT ![node].keys = SubSeq(@, 1, mid),
                                        ![node].children = SubSeq(@, 1, mid + 1)], new_node),
         split |-> TRUE, split_key |-> nodes[node].keys[mid + 1], new_node |-> Len(nodes) + 1,
         existed |-> FALSE]

\* insert_internal: the nodes afterwards, the SplitResult if any, and whether
\* the key was there (the value replaced and size_ decremented).
RECURSIVE insert_internal(_, _, _, _)
insert_internal(nodes, node, key, value) ==
    IF nodes[node].is_leaf
    THEN LET pos == lower_bound(nodes[node].keys, key)
         IN  IF pos < Len(nodes[node].keys) /\ nodes[node].keys[pos + 1] = key
             THEN NoSplit([nodes EXCEPT ![node].values[pos + 1] = value], TRUE)
             ELSE LET put == [nodes EXCEPT ![node].keys = InsertAt(@, pos, key),
                                           ![node].values = InsertAt(@, pos, value)]
                  IN  IF Len(put[node].keys) > MAX_KEYS THEN split_leaf(put, node)
                      ELSE NoSplit(put, FALSE)
    ELSE LET idx == upper_bound_idx(nodes[node].keys, key)
             result == insert_internal(nodes, nodes[node].children[idx + 1], key, value)
         IN  IF ~result.split THEN result
             ELSE LET put == [result.nodes EXCEPT
                                 ![node].keys = InsertAt(@, idx, result.split_key),
                                 ![node].children = InsertAt(@, idx + 1, result.new_node)]
                  IN  IF Len(put[node].keys) > MAX_KEYS THEN split_internal(put, node)
                      ELSE NoSplit(put, FALSE)

\* BPlusTree::insert: the tree afterwards.
insert(t, key, value) ==
    LET result == insert_internal(t.nodes, t.root, key, value)
        size == (IF result.existed THEN t.size - 1 ELSE t.size) + 1
    IN  IF result.split
        THEN [nodes |-> Append(result.nodes,
                               [InternalNode EXCEPT !.keys = <<result.split_key>>,
                                                    !.children = <<t.root, result.new_node>>]),
              root |-> Len(result.nodes) + 1, size |-> size]
        ELSE [nodes |-> result.nodes, root |-> t.root, size |-> size]

\* The leaf both find and erase_internal go down to.
RECURSIVE Descend(_, _, _)
Descend(nodes, node, key) ==
    IF nodes[node].is_leaf THEN node
    ELSE Descend(nodes, nodes[node].children[upper_bound_idx(nodes[node].keys, key) + 1], key)

\* BPlusTree::find: the value of the first equal key of the leaf, or nullopt.
find(t, key) ==
    LET leaf == t.nodes[Descend(t.nodes, t.root, key)]
        hits == {i \in 1 .. Len(leaf.keys) : leaf.keys[i] = key}
    IN  IF hits = {} THEN Nullopt
        ELSE Some(leaf.values[CHOOSE i \in hits : \A k \in hits : i <= k])

\* BPlusTree::erase: the value returned and the tree afterwards; the leaf loses
\* the key, and an internal root with one child gives way to that child.
erase(t, key) ==
    LET leaf == Descend(t.nodes, t.root, key)
        keys == t.nodes[leaf].keys
        pos == lower_bound(keys, key)
        found == pos < Len(keys) /\ keys[pos + 1] = key
        nodes == IF found THEN [t.nodes EXCEPT ![leaf].keys = EraseAt(@, pos),
                                               ![leaf].values = EraseAt(@, pos)]
                 ELSE t.nodes
        root == IF ~nodes[t.root].is_leaf /\ Len(nodes[t.root].children) = 1
                THEN nodes[t.root].children[1] ELSE t.root
    IN  [found |-> found,
         tree |-> [nodes |-> nodes, root |-> root,
                   size |-> IF found THEN t.size - 1 ELSE t.size]]

\* for_each: down children[0] to the leftmost leaf, then along next.
RECURSIVE Leftmost(_, _)
Leftmost(nodes, node) ==
    IF nodes[node].is_leaf THEN node ELSE Leftmost(nodes, nodes[node].children[1])

RECURSIVE AlongNext(_, _)
AlongNext(nodes, leaf) ==
    IF leaf = 0 THEN <<>>
    ELSE [i \in 1 .. Len(nodes[leaf].keys) |-> <<nodes[leaf].keys[i], nodes[leaf].values[i]>>]
            \o AlongNext(nodes, nodes[leaf].next)

\* The pairs for_each hands to fn, in the order of the calls.
for_each(t) == AlongNext(t.nodes, Leftmost(t.nodes, t.root))

\* The calls on a BPlusTree.
TreeInsert(key, value) ==
    /\ tree' = insert(tree, key, value)
    /\ lastOp' = [op |-> "insert", key |-> key, value |-> value]
    /\ UNCHANGED <<programVars, stmt, heap, ring>>

TreeErase(key) ==
    /\ tree' = erase(tree, key).tree
    /\ lastOp' = [op |-> "erase", key |-> key, found |-> erase(tree, key).found]
    /\ UNCHANGED <<programVars, stmt, heap, ring>>

\* -------------------------------------------------------------- specification
Hashes == {Sha256(w) : w \in SeqsUpTo(Byte, ChunkWindow)}
Paths == {get_chunk_path(h) : h \in Hashes}

Init ==
    /\ srcTree \in SourceTrees
    /\ snapshots = [j \in JobIds |-> NoSnapshot]
    /\ jobs = <<>>
    /\ chunks = <<>>
    /\ manifests = <<>>
    /\ encryption_keys = [j \in JobIds |-> 0]
    /\ chunkFiles = <<>>
    /\ wk = [j \in JobIds |-> IdleWorker]
    /\ faults = <<>>
    /\ lastOp = NoOp
    /\ dep_graph = EmptyDAG
    /\ in_progress = {}
    /\ pq = {}
    /\ job_dependencies = {}
    /\ orch = [pc |-> "idle", mode |-> "single", ready |-> <<>>]
    /\ active_workers = {}
    /\ worker_sem = MaxWorkers
    /\ child = [j \in SchedJobIds |-> "none"]
    /\ execs = [j \in SchedJobIds |-> 0]
    /\ cascade = {}
    /\ stmt = IdleStatement
    /\ heap = <<>>
    /\ ring = NewCircularBuffer
    /\ tree = NewBPlusTree

\* No worker is between its start and its end.
Quiescent == \A j \in JobIds : wk[j].pc \in {"none", "idle", "done", "failed"}

\* The workers of several orchestrators or of run_multi_process run side by side;
\* the environment injects no failure.
Next ==
    \/ \E comp \in CompressionType, enc \in BOOLEAN, key \in Keys : Submit(comp, enc, key) /\ UNCHANGED schedVars
    \/ \E j \in JobIds : StartWorker(j, AllLinked) /\ UNCHANGED schedVars
    \/ \E j \in JobIds : ReadChunk(j) /\ UNCHANGED schedVars
    \/ \E j \in JobIds : WriteChunk(j, "none") /\ UNCHANGED schedVars
    \/ \E j \in JobIds : EndFile(j, 0) /\ UNCHANGED schedVars
    \/ \E j \in JobIds : StoreKey(j, FALSE) /\ UNCHANGED schedVars
    \/ \E j \in JobIds : FinishWorker(j) /\ UNCHANGED schedVars
    \/ \E j \in JobIds, lucky \in BOOLEAN : Quiescent /\ RestoreJob(j, lucky) /\ UNCHANGED schedVars
    \/ \E j \in JobIds : Quiescent /\ VerifyBackup(j) /\ UNCHANGED schedVars

Spec == Init /\ [][Next]_vars

\* One worker at a time (run_single_threaded, or one CLI run after another), in
\* an environment that injects failures and touches the chunk files between runs.
FaultNext ==
    \/ \E comp \in CompressionType, enc \in BOOLEAN, key \in Keys : Submit(comp, enc, key) /\ UNCHANGED schedVars
    \/ \E j \in JobIds : Quiescent /\ StartWorker(j, AllLinked) /\ UNCHANGED schedVars
    \/ \E j \in JobIds : Quiescent /\ StartWorkerFails(j) /\ UNCHANGED schedVars
    \/ \E j \in JobIds : ReadChunk(j) /\ UNCHANGED schedVars
    \/ \E j \in JobIds, fault \in {"none", "compress", "encrypt", "open", "db"} : WriteChunk(j, fault) /\ UNCHANGED schedVars
    \/ \E j \in JobIds, failAt \in 0 .. MaxFileLen + 2 : EndFile(j, failAt) /\ UNCHANGED schedVars
    \/ \E j \in JobIds, failed \in BOOLEAN : StoreKey(j, failed) /\ UNCHANGED schedVars
    \/ \E j \in JobIds : FinishWorker(j) /\ UNCHANGED schedVars
    \/ \E j \in JobIds, lucky \in BOOLEAN : Quiescent /\ RestoreJob(j, lucky) /\ UNCHANGED schedVars
    \/ \E j \in JobIds : Quiescent /\ VerifyBackup(j) /\ UNCHANGED schedVars
    \/ \E path \in Paths, i \in 1 .. ChunkWindow : Quiescent /\ Tamper(path, i) /\ UNCHANGED schedVars
    \/ \E path \in Paths : Quiescent /\ DeleteChunkFile(path) /\ UNCHANGED schedVars

FaultSpec == Init /\ [][FaultNext]_vars

\* One worker at a time over a source directory that changes while the worker
\* walks its snapshot; the jobs neither compress nor encrypt, and link() may
\* fail for any file (the copy fallback).
SnapNext ==
    \/ Submit("NONE", FALSE, 1) /\ UNCHANGED schedVars
    \/ \E j \in JobIds, links \in [1 .. MaxFiles -> BOOLEAN] : Quiescent /\ StartWorker(j, links) /\ UNCHANGED schedVars
    \/ \E j \in JobIds : Quiescent /\ StartWorkerFails(j) /\ UNCHANGED schedVars
    \/ \E j \in JobIds : ReadChunk(j) /\ UNCHANGED schedVars
    \/ \E j \in JobIds : WriteChunk(j, "none") /\ UNCHANGED schedVars
    \/ \E j \in JobIds : EndFile(j, 0) /\ UNCHANGED schedVars
    \/ \E j \in JobIds : FinishWorker(j) /\ UNCHANGED schedVars
    \/ \E i \in 1 .. MaxFiles, content \in FileContents : WriteSource(i, content) /\ UNCHANGED schedVars
    \/ \E i \in 1 .. MaxFiles, content \in FileContents : ReplaceSource(i, content) /\ UNCHANGED schedVars
    \/ \E i \in 1 .. MaxFiles : DeleteSource(i) /\ UNCHANGED schedVars

SnapSpec == Init /\ [][SnapNext]_vars

\* A library class on its own starts as its constructor leaves it; the source
\* directory plays no part.
UnitInit == Init /\ srcTree = <<>>

\* The DAG class on its own: any sequence of its four mutators on dep_graph.
DagAddNode(node) ==
    /\ dep_graph' = add_node(dep_graph, node)
    /\ lastOp' = NoOp
    /\ UNCHANGED <<storeVars, jobs, in_progress, pq, job_dependencies, orch, active_workers, worker_sem, child, execs, cascade>>

DagAddEdge(from, to) ==
    /\ to \in DOMAIN dep_graph.in_degree => dep_graph.in_degree[to] <= MaxDeps
    /\ dep_graph' = add_edge(dep_graph, from, to).g
    /\ lastOp' = NoOp
    /\ UNCHANGED <<storeVars, jobs, in_progress, pq, job_dependencies, orch, active_workers, worker_sem, child, execs, cascade>>

DagRemoveEdge(from, to) ==
    /\ dep_graph' = remove_edge(dep_graph, from, to).g
    /\ lastOp' = NoOp
    /\ UNCHANGED <<storeVars, jobs, in_progress, pq, job_dependencies, orch, active_workers, worker_sem, child, execs, cascade>>

DagRemoveNode(node) ==
    /\ dep_graph' = remove_node(dep_graph, node)
    /\ lastOp' = NoOp
    /\ UNCHANGED <<storeVars, jobs, in_progress, pq, job_dependencies, orch, active_workers, worker_sem, child, execs, cascade>>

DagNext ==
    \/ \E node \in SchedJobIds : DagAddNode(node)
    \/ \E from \in SchedJobIds, to \in SchedJobIds : DagAddEdge(from, to)
    \/ \E from \in SchedJobIds, to \in SchedJobIds : DagRemoveEdge(from, to)
    \/ \E node \in SchedJobIds : DagRemoveNode(node)

DagSpec == UnitInit /\ [][DagNext]_vars

\* A statement that is stepped again and again while other connections may hold
\* the database; the thread inside step_retry keeps running, and sqlite3_step
\* returns.
StepNext ==
    \/ Step
    \/ \E rc \in StepCodes : Sqlite3Step(rc)

StepSpec ==
    /\ UnitInit
    /\ [][StepNext]_vars
    /\ WF_vars(\E rc \in StepCodes : Sqlite3Step(rc))

\* Any sequence of calls on a PriorityQueue of job entries.
QueueNext ==
    \/ \E item \in JobEntries : Push(item)
    \/ Pop
    \/ \E job_id \in 1 .. MaxEntries : RemoveIf(job_id)
    \/ \E job_id \in 1 .. MaxEntries, priority \in 0 .. MaxPriority : Update(job_id, priority)

QueueSpec == UnitInit /\ [][QueueNext]_vars

\* Any sequence of calls on a CircularBuffer of capacity RingCapacity.
RingNext ==
    \/ \E item \in Items : RingPush(item)
    \/ \E item \in Items : RingPushOverwrite(item)
    \/ RingPop
    \/ RingClear
    \/ \E n \in 0 .. RingCapacity + 1 : RingLastN(n)

RingSpec == UnitInit /\ [][RingNext]_vars

\* Any sequence of insert and erase on a BPlusTree of order ORDER.
TreeNext ==
    \/ \E key \in TreeKeys, value \in TreeValues : TreeInsert(key, value)
    \/ \E key \in TreeKeys : TreeErase(key)

TreeSpec == UnitInit /\ [][TreeNext]_vars

\* The scheduler and the orchestrator's run loops over an empty source: what a
\* worker does to the stores is left out, its outcome is chosen freely.
SchedInit == Init /\ srcTree = <<>>

SchedNext ==
    \/ SubmitJob
    \/ \E job_id \in SchedJobIds, depends_on \in SchedJobIds : AddDependency(job_id, depends_on)
    \/ \E mode \in {"single", "multi"} : StartRun(mode)
    \/ GetReady
    \/ \E success \in BOOLEAN : ExecuteJobDirect(success)
    \/ \E forked \in BOOLEAN : ForkWorker(forked)
    \/ \E job_id \in SchedJobIds, outcome \in {"success", "failure", "crash"} : ChildExecute(job_id, outcome)
    \/ \E job_id \in SchedJobIds : ReapChild(job_id)

SchedSpec == SchedInit /\ [][SchedNext]_vars

\* The run loops keep turning (a turn that finds nothing to do sleeps 100 ms and
\* comes back), every iteration of run_multi_process begins with reap_children,
\* and every forked worker eventually exits.
SchedLiveSpec ==
    /\ SchedSpec
    /\ WF_vars(GetReady)
    /\ WF_vars(\E success \in BOOLEAN : ExecuteJobDirect(success))
    /\ WF_vars(\E forked \in BOOLEAN : ForkWorker(forked))
    /\ \A job_id \in SchedJobIds : WF_vars(\E outcome \in {"success", "failure", "crash"} : ChildExecute(job_id, outcome))
    /\ \A job_id \in SchedJobIds : SF_vars(ReapChild(job_id))

\* ===================================================================== claims
\* No chunk file was touched from outside the program.
Untouched == \A i \in 1 .. Len(faults) : faults[i] \notin {"tamper", "delete"}

\* The ChunkRefs of all stored manifests that name hash h.
RECURSIVE RefsNaming(_, _)
RefsNaming(ms, h) ==
    IF ms = <<>> THEN 0
    ELSE Len(SelectSeq(ms[1].chunks, LAMBDA r : r.hash = h)) + RefsNaming(Tail(ms), h)

RECURSIVE SumSizes(_)
SumSizes(refs) ==
    IF refs = <<>> THEN 0 ELSE refs[1].size + SumSizes(Tail(refs))

\* The number of windows of a file of n bytes.
NumWindows(n) == (n + ChunkWindow - 1) \div ChunkWindow

\* C1 -- Round-trip: restore_job of a COMPLETED job, in a repository the
\* environment never disturbed, restores every file of the source tree and each
\* restored file's bytes equal the source file's bytes.
C1_RoundTrip ==
    (/\ lastOp.op = "restore"
     /\ lastOp.job_id \in DOMAIN jobs
     /\ jobs[lastOp.job_id].status = "COMPLETED"
     /\ faults = <<>>)
    => /\ Len(lastOp.files) = Len(srcTree)
       /\ \A i \in 1 .. Len(lastOp.files) :
              lastOp.files[i].ok /\ lastOp.files[i].bytes = srcTree[i]

\* C2 -- whenever no worker is mid-run, the ref_count of every ChunkRecord
\* equals the number of ChunkRefs of all stored manifests that name its hash.
C2_RefCount ==
    Quiescent => \A h \in DOMAIN chunks : chunks[h].ref_count = RefsNaming(manifests, h)

\* C3 -- Content addressing: the bytes of every chunk file, decoded as its
\* ChunkRecord says (decrypted with the writer's key if encrypted is set, then
\* decompressed if the tag is not NONE), hash to the record's hash, as long as
\* nobody touched the chunk files from outside.
C3_ContentAddressing ==
    Untouched =>
        \A h \in DOMAIN chunks :
            chunks[h].storage_path \in DOMAIN chunkFiles =>
                \E key \in Keys : \A lucky \in BOOLEAN :
                    LET read == chunkFiles[chunks[h].storage_path]
                        plain == IF chunks[h].encrypted THEN decrypt(read, key, lucky) ELSE read
                        data == IF plain = NoBytes THEN <<>>
                                ELSE decompress(plain, chunks[h].original_size,
                                                chunks[h].compression, lucky)
                    IN  Sha256(data) = h /\ chunks[h].storage_path = get_chunk_path(h)

\* C4 -- Manifest order: in every stored manifest the chunk_index values are
\* 0, 1, ..., n-1, one ChunkRef per window of the file, each offset is the sum of
\* the sizes of the windows before it, and the sizes add up to file_size.
C4_ManifestOrder ==
    \A m \in 1 .. Len(manifests) :
        LET refs == manifests[m].chunks
        IN  /\ Len(refs) = NumWindows(manifests[m].file_size)
            /\ \A k \in 1 .. Len(refs) :
                   /\ refs[k].chunk_index = k - 1
                   /\ refs[k].offset = (k - 1) * ChunkWindow
            /\ SumSizes(refs) = manifests[m].file_size

\* C5 -- Dedup correctness: when a job ran to COMPLETED after another job of the
\* same settings had completed on the same source tree, and the environment
\* injected no failure, the number of ChunkRecords after the second backup is
\* the number after the first, and the second job's persisted stored_bytes is 0
\* and its dedup_savings equals its total_bytes.
C5_DedupCorrectness ==
    \A j1 \in DOMAIN jobs, j2 \in DOMAIN jobs :
        (/\ faults = <<>>
         /\ j1 \in wk[j2].after
         /\ jobs[j2].status = "COMPLETED"
         /\ jobs[j1].compression = jobs[j2].compression
         /\ jobs[j1].encrypt = jobs[j2].encrypt)
        => /\ wk[j2].rows = wk[j1].rows
           /\ jobs[j2].stored_bytes = 0
           /\ jobs[j2].dedup_savings = jobs[j2].total_bytes

C5_Witness ==
    \E j1 \in DOMAIN jobs, j2 \in DOMAIN jobs :
        /\ faults = <<>>
        /\ j1 \in wk[j2].after
        /\ jobs[j2].status = "COMPLETED"
        /\ jobs[j1].compression = jobs[j2].compression
        /\ jobs[j1].encrypt = jobs[j2].encrypt
        /\ jobs[j2].total_bytes > ChunkWindow
        /\ wk[j2].rows > 1

\* The chunk file of hash h holds something else than a backup wrote there.
Altered(h) ==
    /\ get_chunk_path(h) \in DOMAIN chunkFiles
    /\ \/ chunkFiles[get_chunk_path(h)].bad
       \/ Sha256(chunkFiles[get_chunk_path(h)].data) # h

ReferencesAltered(manifest) ==
    \E k \in 1 .. Len(manifest.chunks) : Altered(manifest.chunks[k].hash)

\* C6 -- Restore verification: in the result of restore_job, the restore_file of
\* every manifest that references an altered chunk file failed; and a
\* restore_file that succeeded wrote bytes that hash to the manifest's
\* file_hash, are the source file's bytes, and consist of the chunks the
\* ChunkRefs name, each hashing to its ChunkRef's hash.
C6_RestoreVerification ==
    (lastOp.op = "restore" /\ lastOp.files # <<>>) =>
        LET ms == get_file_manifests(lastOp.job_id)
        IN  \A i \in 1 .. Len(lastOp.files) :
                /\ ReferencesAltered(ms[i]) => ~lastOp.files[i].ok
                /\ lastOp.files[i].ok =>
                       /\ Sha256(lastOp.files[i].bytes) = ms[i].file_hash
                       /\ lastOp.files[i].bytes = srcTree[ms[i].file_path]
                       /\ \A k \in 1 .. Len(ms[i].chunks) :
                              Sha256(SubSeq(lastOp.files[i].bytes,
                                            ms[i].chunks[k].offset + 1,
                                            ms[i].chunks[k].offset + ms[i].chunks[k].size))
                                  = ms[i].chunks[k].hash

C6_Witness ==
    /\ lastOp.op = "restore"
    /\ Len(lastOp.files) = 2
    /\ ReferencesAltered(get_file_manifests(lastOp.job_id)[1])
    /\ ~ReferencesAltered(get_file_manifests(lastOp.job_id)[2])
    /\ ~lastOp.files[1].ok
    /\ lastOp.files[2].ok

\* Every ChunkRef of every manifest of the job has a ChunkRecord whose
\* storage_path exists on disk.
AllChunksPresent(job_id) ==
    \A m \in 1 .. Len(manifests) :
        manifests[m].job_id = job_id =>
            \A k \in 1 .. Len(manifests[m].chunks) :
                /\ manifests[m].chunks[k].hash \in DOMAIN chunks
                /\ chunks[manifests[m].chunks[k].hash].storage_path \in DOMAIN chunkFiles

\* C7 -- verify_backup of a COMPLETED job answers true exactly when every
\* ChunkRef of the job has a ChunkRecord whose storage_path exists on disk,
\* whatever the chunk files contain: also when a chunk file was tampered with,
\* and restore_job then fails each file whose manifest references it.
C7_VerifyExistenceOnly ==
    /\ (/\ lastOp.op = "verify"
        /\ lastOp.job_id \in DOMAIN jobs
        /\ jobs[lastOp.job_id].status = "COMPLETED")
       => (lastOp.ok <=> AllChunksPresent(lastOp.job_id))
    /\ \A j \in DOMAIN jobs :
           (Quiescent /\ jobs[j].status = "COMPLETED") =>
               /\ verify_backup(j) <=> AllChunksPresent(j)
               /\ \A lucky \in BOOLEAN :
                      LET ms == get_file_manifests(j)
                          res == restore_job(j, lucky)
                      IN  \A i \in 1 .. Len(res.files) :
                              ReferencesAltered(ms[i]) => ~res.files[i].ok

\* A verify_backup that answered true for a job one of whose chunk files was
\* tampered with, and whose restore fails.
C7_Witness ==
    /\ lastOp.op = "verify"
    /\ lastOp.ok
    /\ faults = <<"tamper">>
    /\ \E m \in 1 .. Len(manifests) :
           manifests[m].job_id = lastOp.job_id /\ ReferencesAltered(manifests[m])
    /\ \A lucky \in BOOLEAN : ~restore_job(lastOp.job_id, lucky).success

\* C8 -- Failure cascade: right after mark_failed(A), A's persisted status is
\* FAILED and every job with a registered dependency on A has the persisted
\* status CANCELLED.
C8_FailureCascade ==
    lastOp.op = "mark_failed" =>
        /\ jobs[lastOp.job_id].status = "FAILED"
        /\ \A b \in DOMAIN jobs :
               <<b, lastOp.job_id>> \in job_dependencies => jobs[b].status = "CANCELLED"

C8_Witness ==
    /\ lastOp.op = "mark_failed"
    /\ \E b \in DOMAIN jobs, c \in DOMAIN jobs :
           /\ b # c
           /\ <<b, lastOp.job_id>> \in job_dependencies
           /\ <<c, lastOp.job_id>> \in job_dependencies
           /\ jobs[b].status = "CANCELLED"
           /\ jobs[c].status = "CANCELLED"

\* C9 -- in both run modes, when the worker of J1 fails while J2, a job with a
\* registered dependency on J1, is waiting, J2 is never executed, and when the
\* run ends J1 is FAILED and J2 is CANCELLED.
C9_CascadeInBothModes ==
    \A pair \in cascade :
        /\ execs[pair[2]] = 0
        /\ lastOp.op = "run_end" =>
               /\ jobs[pair[1]].status = "FAILED"
               /\ jobs[pair[2]].status = "CANCELLED"

\* C10 -- Dependency gating: in both run modes, when a worker is started for a
\* job, every registered prerequisite of the job is COMPLETED.
C10_DependencyGating ==
    lastOp.op = "execute" =>
        \A p \in DOMAIN jobs :
            <<lastOp.job_id, p>> \in job_dependencies => jobs[p].status = "COMPLETED"

\* The jobs add_dependency registered as prerequisites of j: the rows of the
\* table and the edges the scheduler holds.
Prerequisites(j) ==
    {p \in SchedJobIds : <<j, p>> \in job_dependencies}
        \cup {p \in DOMAIN dep_graph.adj : j \in dep_graph.adj[p]}

\* mark_completed(p) was called after p's worker set COMPLETED.
MarkedCompleted(p) ==
    p \in DOMAIN jobs /\ jobs[p].status = "COMPLETED" /\ p \notin active_workers

\* C11 -- Ready-set liveness: after any sequence of submit_job, add_dependency
\* and mark_completed calls, a PENDING job that was not handed out yet and all of
\* whose prerequisites are submitted jobs that are COMPLETED and marked completed
\* is returned by the next get_ready_jobs call.
C11_ReadySetLiveness ==
    \A j \in DOMAIN jobs :
        (/\ jobs[j].status = "PENDING"
         /\ j \notin in_progress
         /\ \A p \in Prerequisites(j) : MarkedCompleted(p))
        => j \in get_ready_jobs

\* A run loop was just entered over jobs that are all PENDING, none handed out,
\* and every node of the scheduler's graph is a submitted job.
FreshRun ==
    /\ orch.pc = "loop"
    /\ in_progress = {}
    /\ DOMAIN dep_graph.adj = DOMAIN jobs
    /\ \A j \in DOMAIN jobs : jobs[j].status = "PENDING"

\* Every dependency was registered once: the counters of the graph are the
\* numbers of incoming edges.
RegisteredOnce ==
    \A n \in DOMAIN dep_graph.in_degree :
        dep_graph.in_degree[n] = Cardinality({p \in DOMAIN dep_graph.adj : n \in dep_graph.adj[p]})

\* No fork() has failed: a job fork_worker set RUNNING has a worker process.
ForksSucceed ==
    \A j \in DOMAIN jobs : jobs[j].status = "RUNNING" => child[j] # "none"

\* C12 -- Multi-worker termination: a call of run_multi_process over submitted
\* jobs with acyclic dependencies, each registered once, eventually returns,
\* given that every fork succeeds and every forked worker eventually exits, and
\* when it returns no job is PENDING and no worker is active.
C12_MultiTermination ==
    /\ []ForksSucceed => ((FreshRun /\ RegisteredOnce /\ orch.mode = "multi") ~> (orch.pc = "idle"))
    /\ [](lastOp.op = "run_end" /\ lastOp.mode = "multi"
            => /\ \A j \in DOMAIN jobs : jobs[j].status # "PENDING"
               /\ active_workers = {})

\* C13 -- Single-process termination: a call of run_single_threaded over
\* submitted jobs whose dependencies were registered through add_dependency
\* eventually returns (stop() is never called), and when it returns no job is
\* PENDING.
C13_SingleTermination ==
    /\ (FreshRun /\ orch.mode = "single") ~> (orch.pc = "idle")
    /\ [](lastOp.op = "run_end" /\ lastOp.mode = "single"
            => \A j \in DOMAIN jobs : jobs[j].status # "PENDING")

\* The ChunkRefs of a file: one per window, in order (the deduplicated flag is
\* not part of a reference).
Refs(f) ==
    [k \in 1 .. NumWindows(Len(f)) |->
        [hash |-> Sha256(SubSeq(f, (k - 1) * ChunkWindow + 1, Min(k * ChunkWindow, Len(f)))),
         offset |-> (k - 1) * ChunkWindow,
         size |-> Min(k * ChunkWindow, Len(f)) - (k - 1) * ChunkWindow,
         chunk_index |-> k - 1]]

StoredRefs(manifest) ==
    [k \in 1 .. Len(manifest.chunks) |->
        [hash |-> manifest.chunks[k].hash, offset |-> manifest.chunks[k].offset,
         size |-> manifest.chunks[k].size, chunk_index |-> manifest.chunks[k].chunk_index]]

LiveWorkers == {j \in SchedJobIds : child[j] \in {"running", "exit0", "exit1"}}

\* C15 -- Worker bound: the number of live worker processes never exceeds
\* MAX_WORKER_PROCESSES (here MaxWorkers), and whenever the orchestrator is at a
\* loop-iteration boundary the semaphore value plus the number of active
\* workers is MAX_WORKER_PROCESSES, also after a failed fork and after a reap.
C15_WorkerBound ==
    /\ Cardinality(LiveWorkers) <= MaxWorkers
    /\ LiveWorkers = active_workers
    /\ orch.pc \in {"loop", "idle"} => worker_sem + Cardinality(active_workers) = MaxWorkers

\* A loop-iteration boundary with one worker reaped, one fork failed (the job
\* is RUNNING without a process) and one worker live.
C15_Witness ==
    /\ orch.pc = "loop"
    /\ orch.mode = "multi"
    /\ \E j \in DOMAIN jobs : jobs[j].status = "RUNNING" /\ child[j] = "none"
    /\ \E j \in DOMAIN jobs : child[j] = "reaped"
    /\ Cardinality(active_workers) = 1
    /\ worker_sem = MaxWorkers - 1

\* A walk of at most n edges leads from a to b.
RECURSIVE WalkWithin(_, _, _, _)
WalkWithin(g, a, b, n) ==
    /\ n > 0
    /\ a \in DOMAIN g.adj
    /\ b \in g.adj[a] \/ \E c \in g.adj[a] : WalkWithin(g, c, b, n - 1)

HasCycle(g) == \E a \in DOMAIN g.adj : WalkWithin(g, a, a, Cardinality(DOMAIN g.adj))

\* The edge from -> to would close a cycle: it is a loop, or a walk leads from
\* to back to from.
WouldCloseCycle(g, from, to) ==
    from = to \/ WalkWithin(g, to, from, Cardinality(DOMAIN g.adj))

Edges(g) == {e \in SchedJobIds \X SchedJobIds : has_edge(g, e[1], e[2])}

\* C16 -- DAG acyclicity: the scheduler's dependency graph never contains a
\* cycle, and in every graph the scheduler reaches, an add_edge that would close
\* a cycle (a self-dependency included) returns false and leaves the edges as
\* they were; an add_dependency that was refused left the graph without the
\* refused edge.
C16_DagAcyclicity ==
    /\ ~HasCycle(dep_graph)
    /\ \A from \in SchedJobIds, to \in SchedJobIds :
           WouldCloseCycle(dep_graph, from, to) =>
               /\ ~add_edge(dep_graph, from, to).ok
               /\ Edges(add_edge(dep_graph, from, to).g) = Edges(dep_graph)
    /\ (lastOp.op = "add_dependency" /\ ~lastOp.ok) =>
           ~has_edge(dep_graph, lastOp.depends_on, lastOp.job_id)

\* An add_dependency between two different jobs was refused: the graph holds
\* the opposite edge.
C16_Witness ==
    /\ lastOp.op = "add_dependency"
    /\ ~lastOp.ok
    /\ lastOp.job_id # lastOp.depends_on
    /\ has_edge(dep_graph, lastOp.job_id, lastOp.depends_on)

\* The node n is in the graph and no edge leads to it.
ZeroIncoming(n) ==
    n \in DOMAIN dep_graph.adj /\ \A p \in DOMAIN dep_graph.adj : n \notin dep_graph.adj[p]

Elems(seq) == {seq[i] : i \in 1 .. Len(seq)}

\* C17 -- right after get_ready_jobs, the jobs it returned are exactly the nodes
\* of the graph without incoming edge whose persisted status is PENDING and that
\* were not in in_progress before the call, in the order of created_at (all jobs
\* have the same priority); every returned job is in in_progress, and a
\* repeated call returns none of them.
C17_ReadyJobs ==
    lastOp.op = "get_ready_jobs" =>
        /\ Elems(lastOp.ready) =
               {n \in DOMAIN jobs : /\ ZeroIncoming(n)
                                    /\ jobs[n].status = "PENDING"
                                    /\ n \notin in_progress \ Elems(lastOp.ready)}
        /\ \A i \in 1 .. Len(lastOp.ready), k \in 1 .. Len(lastOp.ready) :
               i < k => lastOp.ready[i] < lastOp.ready[k]
        /\ Elems(lastOp.ready) \subseteq in_progress
        /\ get_ready_jobs \cap Elems(lastOp.ready) = {}

\* The ChunkInfos of refs that a store_chunk call for hash h stands behind: those
\* store_file did not mark deduplicated.
Stored(refs, h) == Len(SelectSeq(refs, LAMBDA r : r.hash = h /\ ~r.deduplicated))

RECURSIVE StoredInManifests(_, _)
StoredInManifests(ms, h) ==
    IF ms = <<>> THEN 0 ELSE Stored(ms[1].chunks, h) + StoredInManifests(Tail(ms), h)

RECURSIVE StoredByWorkers(_, _)
StoredByWorkers(js, h) ==
    IF js = {} THEN 0
    ELSE LET j == CHOOSE i \in js : TRUE
         IN  Stored(wk[j].mchunks, h) + StoredByWorkers(js \ {j}, h)

\* The store_chunk calls for hash h that returned success so far.
StoreChunkCalls(h) == StoredInManifests(manifests, h) + StoredByWorkers(JobIds, h)

\* C18 -- whatever the interleaving of the store_chunk calls that concurrent
\* workers issue for one hash, the chunks table holds a row for the hash exactly
\* when a call succeeded, and the row's ref_count is the number of calls that
\* succeeded: no increment is lost.
C18_StoreChunkAtomic ==
    \A h \in Hashes :
        IF h \in DOMAIN chunks
        THEN chunks[h].ref_count = StoreChunkCalls(h)
        ELSE StoreChunkCalls(h) = 0

\* Two workers that are both still running have each stored the same hash.
C18_Witness ==
    \E h \in DOMAIN chunks :
        /\ chunks[h].ref_count = 2
        /\ Stored(wk[1].mchunks, h) = 1
        /\ Stored(wk[2].mchunks, h) = 1

\* C19 -- as long as nobody touches the chunk files from outside, every ChunkRef
\* of every manifest in the metadata store names a hash that has a ChunkRecord
\* whose chunk file is on disk, also when a store_chunk call failed.
C19_VisibleManifestChunks ==
    Untouched =>
        \A m \in 1 .. Len(manifests) :
            \A k \in 1 .. Len(manifests[m].chunks) :
                /\ manifests[m].chunks[k].hash \in DOMAIN chunks
                /\ chunks[manifests[m].chunks[k].hash].storage_path \in DOMAIN chunkFiles

\* A store_chunk call of job j's worker failed: a chunk the worker wrote (not
\* deduplicated) has no ChunkRecord.
StoreChunkFailed(j) ==
    \E m \in 1 .. Len(manifests) :
        /\ manifests[m].job_id = j
        /\ \E k \in 1 .. Len(manifests[m].chunks) :
               /\ ~manifests[m].chunks[k].deduplicated
               /\ manifests[m].chunks[k].hash \notin DOMAIN chunks

\* C20 -- a job during whose execution a call that records metadata failed
\* (here store_chunk) does not end with status COMPLETED.
C20_MetadataFailureFatal ==
    \A j \in DOMAIN jobs : StoreChunkFailed(j) => jobs[j].status # "COMPLETED"

\* The FileManifest store_file has built when worker j is at the end of a file.
BuiltManifest(j) ==
    [job_id |-> j, file_path |-> wk[j].file, file_size |-> wk[j].file_size,
     file_hash |-> wk[j].file_hash, chunks |-> wk[j].mchunks]

\* A step in which worker j's store_file calls store_file_manifest.
StoresManifest(j) ==
    /\ wk[j].pc = "chunk"
    /\ wk[j].pos >= Len(SnapshotFile(j, wk[j].file))
    /\ wk'[j].file = wk[j].file + 1

\* C21: store_file_manifest is atomic. A call that fails (at BEGIN, at the header
\* INSERT, at the INSERT of any chunk row, or at COMMIT) leaves the stored
\* manifests exactly as they were: neither the header nor any chunk row of the
\* manifest is visible. A call that succeeds makes the header and all its chunk
\* rows visible together, as one new manifest after those already stored.
C21_ManifestAtomic ==
    [][\A j \in JobIds :
          StoresManifest(j) =>
              IF faults' # faults
              THEN manifests' = manifests
              ELSE manifests' = Append(manifests, BuiltManifest(j))]_vars

\* A store_file_manifest with chunk rows to insert has failed, and the worker
\* has gone on to the end of its job.
C21_Witness ==
    /\ \E i \in 1 .. Len(faults) : faults[i] = "manifest"
    /\ \E j \in DOMAIN jobs :
          /\ wk[j].pc = "done"
          /\ wk[j].processed > 0
          /\ Len(get_file_manifests(j)) < Len(srcTree)

\* The status changes of the job lifecycle.
LifecycleEdges ==
    {<<"PENDING", "RUNNING">>, <<"RUNNING", "COMPLETED">>, <<"RUNNING", "FAILED">>,
     <<"PENDING", "CANCELLED">>}

\* Status b is status a, or is reached from it along the lifecycle (a step of
\* the model may hold two updates of one call: RUNNING, then the worker's end).
Along(a, b) ==
    \/ a = b
    \/ <<a, b>> \in LifecycleEdges
    \/ \E m \in {"RUNNING"} : <<a, m>> \in LifecycleEdges /\ <<m, b>> \in LifecycleEdges

\* C22: Job lifecycle. In every step the persisted status of every job stays
\* what it is or changes along PENDING to RUNNING, RUNNING to COMPLETED, RUNNING
\* to FAILED, PENDING to CANCELLED: COMPLETED, FAILED and CANCELLED are never
\* left, and a job that has been RUNNING is never set to CANCELLED.
C22_JobLifecycle ==
    [][\A j \in DOMAIN jobs : Along(jobs[j].status, jobs'[j].status)]_vars

\* C23: After mark_failed(A), every direct dependent B of A has the persisted
\* error_message "Dependency job <A> failed".
C23_CancelMessage ==
    lastOp.op = "mark_failed" =>
        \A B \in lastOp.dependents :
            B \in DOMAIN jobs => jobs[B].error_message = DependencyFailed(lastOp.job_id)

\* C24: After mark_failed(A), no direct dependent B of A remains a node of the
\* DAG, and no job counts B as an incoming edge.
C24_CancelledRemoved ==
    lastOp.op = "mark_failed" =>
        \A B \in lastOp.dependents :
            /\ B \notin DOMAIN dep_graph.adj
            /\ B \notin DOMAIN dep_graph.in_degree
            /\ \A n \in DOMAIN dep_graph.adj : ~has_edge(dep_graph, B, n)

\* C25: Every COMPLETED job has a key row in the metadata store if and only if
\* its encrypt flag is true; as this holds in every state, the key row is there
\* before the status becomes COMPLETED.
C25_KeyIffEncrypt ==
    \A j \in DOMAIN jobs :
        jobs[j].status = "COMPLETED" => (encryption_keys[j] # 0 <=> jobs[j].encrypt)

\* BackupWorker::execute has returned for job j.
Returned(j) == wk[j].pc \in {"done", "failed"}

\* C26: Snapshot lifetime. Once BackupWorker::execute has returned for a job,
\* with success or because the snapshot was inconsistent, no snapshot directory
\* of that job is left under the snapshot root.
C26_SnapshotLifetime ==
    \A j \in DOMAIN jobs : Returned(j) => ~snapshots[j].dir

\* C27: Snapshot stability. While a job's snapshot is there, no step (an in-place
\* write to a source file, a truncation, a deletion, a replacement) changes the
\* bytes read through any of the snapshot's paths, for files mirrored by
\* hardlink and by copy.
C27_SnapshotStability ==
    [][\A j \in JobIds :
          (snapshots[j].dir /\ snapshots'[j].dir
              /\ DOMAIN snapshots'[j].files = DOMAIN snapshots[j].files)
          => \A i \in DOMAIN snapshots[j].files :
                 snapshots'[j].files[i].bytes = snapshots[j].files[i].bytes]_vars

\* What restore_job must return when it refuses a job: no success, nothing
\* restored, an error, and nothing created or written under the destination.
Refused(r) ==
    /\ ~r.success
    /\ r.files_restored = 0
    /\ r.error
    /\ r.files = <<>>
    /\ ~r.dest_created

\* C28: restore_job for a job that does not exist or whose status is not
\* COMPLETED returns success = false, files_restored = 0 and an error, and
\* creates or writes nothing under the destination: for the call just made, and
\* for a call made in any state, also while the job's worker is running.
C28_RestoreRefused ==
    /\ (lastOp.op = "restore"
           /\ (lastOp.job_id \notin DOMAIN jobs \/ jobs[lastOp.job_id].status # "COMPLETED"))
       => Refused(lastOp)
    /\ \A job_id \in 1 .. MaxJobs + 1, lucky \in BOOLEAN :
           (job_id \notin DOMAIN jobs \/ jobs[job_id].status # "COMPLETED")
           => Refused(restore_job(job_id, lucky))

\* restore_job was called for a job that ended FAILED.
C28_Witness ==
    /\ lastOp.op = "restore"
    /\ lastOp.job_id \in DOMAIN jobs
    /\ jobs[lastOp.job_id].status = "FAILED"

\* The call of restore_job just made reached its manifest loop.
ReachedManifests ==
    /\ lastOp.op = "restore"
    /\ lastOp.job_id \in DOMAIN jobs
    /\ jobs[lastOp.job_id].status = "COMPLETED"
    /\ jobs[lastOp.job_id].encrypt => encryption_keys[lastOp.job_id] # 0

RECURSIVE SumFileSizes(_, _)
SumFileSizes(ms, S) ==
    IF S = {} THEN 0
    ELSE LET i == CHOOSE x \in S : TRUE
         IN  ms[i].file_size + SumFileSizes(ms, S \ {i})

\* C29: In restore_job a restore_file that fails for one manifest does not stop
\* the others: every manifest of the job is tried and ends as restore_file ends
\* for it alone. files_restored is the number of manifests restored,
\* bytes_restored the sum of their file_size, and success is true exactly when
\* files_restored > 0 or the job has no manifests.
C29_RestoreContinues ==
    ReachedManifests =>
        LET job_id == lastOp.job_id
            ms == get_file_manifests(job_id)
            alone(i) == restore_file(ms[i], jobs[job_id].compression, jobs[job_id].encrypt,
                                     encryption_keys[job_id], TRUE).ok
                        \/ restore_file(ms[i], jobs[job_id].compression, jobs[job_id].encrypt,
                                        encryption_keys[job_id], FALSE).ok
            good == {i \in 1 .. Len(lastOp.files) : lastOp.files[i].ok}
        IN  /\ Len(lastOp.files) = Len(ms)
            /\ \A i \in 1 .. Len(ms) : lastOp.files[i].ok => alone(i)
            /\ \A i \in 1 .. Len(ms) :
                   (\A lucky \in BOOLEAN :
                        restore_file(ms[i], jobs[job_id].compression, jobs[job_id].encrypt,
                                     encryption_keys[job_id], lucky).ok)
                   => lastOp.files[i].ok
            /\ lastOp.files_restored = Cardinality(good)
            /\ lastOp.bytes_restored = SumFileSizes(ms, good)
            /\ lastOp.success <=> (lastOp.files_restored > 0 \/ ms = <<>>)

\* restore_job went on after a manifest that failed and restored a later one.
C29_Witness ==
    /\ ReachedManifests
    /\ \E i, k \in 1 .. Len(lastOp.files) :
          i < k /\ ~lastOp.files[i].ok /\ lastOp.files[k].ok

\* C30: Dedup safety. Whenever a stored FileManifest of job J names chunk hash
\* h, the chunk file stored for h was encoded with J's compression tag, J's
\* encrypt flag and J's key, and restore_file's decoding of it with J's settings
\* gives the bytes that hash to h; also when the jobs were run by orchestrators
\* with keys of their own, and when workers write side by side.
C30_DedupSafety ==
    \A i \in 1 .. Len(manifests) :
        LET J == manifests[i].job_id
            refs == manifests[i].chunks
        IN  \A k \in 1 .. Len(refs) :
                (refs[k].hash \in DOMAIN chunks
                    /\ chunks[refs[k].hash].storage_path \in DOMAIN chunkFiles)
                => LET stored == chunkFiles[chunks[refs[k].hash].storage_path]
                   IN  /\ stored.comp = jobs[J].compression
                       /\ stored.enc = jobs[J].encrypt
                       /\ stored.enc => stored.key = wk[J].key
                       /\ \A lucky \in BOOLEAN :
                              Sha256(RestoredChunk(refs[k], jobs[J].compression,
                                                   jobs[J].encrypt, wk[J].key, lucky))
                                  = refs[k].hash

\* The number of edges into node n.
EdgesInto(g, n) == Cardinality({m \in DOMAIN g.adj : has_edge(g, m, n)})

\* C31: After any sequence of add_node, add_edge (also of an edge that is
\* already there), remove_edge and remove_node, in_degree[n] is the number of
\* edges into n for every node n, and get_ready_nodes() is exactly the set of
\* nodes without an incoming edge.
C31_InDegreeCounts ==
    /\ DOMAIN dep_graph.in_degree = DOMAIN dep_graph.adj
    /\ \A n \in DOMAIN dep_graph.in_degree :
           dep_graph.in_degree[n] = EdgesInto(dep_graph, n)
    /\ get_ready_nodes(dep_graph) = {n \in DOMAIN dep_graph.adj : EdgesInto(dep_graph, n) = 0}

\* C32: In run_multi_process, a job that get_ready_jobs() returned and that the
\* for loop did not spawn (it is in in_progress, has no worker and is still
\* PENDING when the loop comes round) is spawned in a later iteration.
C32_DeferredSpawned ==
    \A j \in SchedJobIds :
        (/\ orch.mode = "multi" /\ orch.pc = "loop"
         /\ j \in in_progress /\ j \notin active_workers
         /\ jobs[j].status = "PENDING")
            ~> (child[j] # "none")

\* C33: In run_multi_process every job whose persisted status was set to
\* RUNNING eventually reaches COMPLETED or FAILED, given that spawned workers
\* exit; this includes the job whose fork() failed after the parent had set
\* RUNNING.
C33_RunningEnds ==
    \A j \in SchedJobIds :
        (orch.mode = "multi" /\ j \in DOMAIN jobs /\ jobs[j].status = "RUNNING")
            ~> (j \in DOMAIN jobs /\ jobs[j].status \in {"COMPLETED", "FAILED"})

\* C34: In either run mode BackupWorker::execute is started at most once per
\* job_id: a step that hands a job to a worker (execute_job_direct, or a fork
\* that succeeded) takes a job that was never executed and never had a worker,
\* whatever calls of get_ready_jobs, mark_completed, mark_failed and
\* add_dependency came before, also in an earlier run.
C34_ExecutedOnce ==
    [][lastOp'.op = "execute"
         => /\ execs[lastOp'.job_id] = 0
            /\ child[lastOp'.job_id] = "none"
            /\ execs'[lastOp'.job_id] <= 1]_vars

\* A job was executed and marked, a dependency naming it was registered
\* afterwards, and get_ready_jobs of a later run returned other jobs.
C34_Witness ==
    /\ lastOp.op = "get_ready_jobs" /\ lastOp.ready # <<>>
    /\ \E j \in DOMAIN jobs :
          /\ execs[j] = 1 /\ j \notin in_progress
          /\ j \in DOMAIN dep_graph.adj
          /\ \A i \in 1 .. Len(lastOp.ready) : lastOp.ready[i] # j

\* C35: A call add_dependency(job_id, depends_on) that returns false (a
\* self-dependency, or an edge that would close a cycle) leaves the scheduler
\* state as it was: the nodes, edges and in-degrees of the DAG, the rows of
\* job_dependencies, and the submitted job (its row, its queue entry).
C35_RejectedUnchanged ==
    [][(lastOp'.op = "add_dependency" /\ ~lastOp'.ok)
         => /\ dep_graph' = dep_graph
            /\ job_dependencies' = job_dependencies
            /\ jobs' = jobs
            /\ pq' = pq
            /\ in_progress' = in_progress]_vars

\* The call of step_retry made last has returned.
StepReturned == stmt.pc = "idle" /\ stmt.returned # <<>>

\* C36: step_retry calls sqlite3_step at most 10 times; it makes a further
\* attempt only after SQLITE_BUSY, so the first other result is returned at
\* once; it returns SQLITE_BUSY when all 10 attempts were busy; between attempt
\* k and attempt k + 1 it sleeps 50 * k ms; and every call of step_retry
\* returns.
C36_StepRetry ==
    /\ [](/\ Len(stmt.seen) <= 10
          /\ \A k \in 1 .. Len(stmt.seen) - 1 :
                /\ stmt.seen[k] = "SQLITE_BUSY"
                /\ k <= Len(stmt.slept) /\ stmt.slept[k] = 50 * k
          /\ StepReturned =>
                LET result == stmt.returned[Len(stmt.returned)]
                    last == stmt.seen[Len(stmt.seen)]
                IN  /\ stmt.seen # <<>>
                    /\ result = last
                    /\ result = "SQLITE_BUSY" => Len(stmt.seen) = 10)
    /\ (stmt.pc = "loop") ~> StepReturned

\* A call returned SQLITE_BUSY after ten busy attempts, after an earlier call
\* had returned a row on its third attempt.
C36_Witness ==
    /\ StepReturned
    /\ Len(stmt.returned) >= 2
    /\ stmt.returned[Len(stmt.returned)] = "SQLITE_BUSY"
    /\ stmt.returned[1] = "SQLITE_ROW"
    /\ Len(stmt.seen) = 10
    /\ Len(stmt.slept) = 10

\* The messages of the given type among those worker j has sent, in order.
SentOfType(j, type) == SelectSeq(wk[j].sent, LAMBDA m : m.type = type)

\* The last message worker j has sent.
LastSent(j) == wk[j].sent[Len(wk[j].sent)]

HeapProperty(h) ==
    \A idx \in 1 .. Len(h) - 1 : ~JobCompare(At(h, (idx - 1) \div 2), At(h, idx))

\* The entries of the queue with the given job_id.
Matching(h, job_id) == {e \in Elems(h) : e.job_id = job_id}

\* C38: After any sequence of push, pop, remove_if and update on a
\* PriorityQueue the heap property holds, and top() (heap_[0]) is an entry that
\* no other entry outranks; pop returns such an entry and removes it;
\* remove_if removes exactly one matching entry when there is one, and
\* otherwise returns false and changes nothing; push and update add and replace
\* exactly their entry.
C38_HeapProperty ==
    /\ [](/\ HeapProperty(heap)
          /\ \A i \in 1 .. Len(heap) : ~JobCompare(heap[1], heap[i]))
    /\ [][/\ lastOp'.op = "pop" =>
                /\ lastOp'.top \in Elems(heap)
                /\ \A e \in Elems(heap) : ~JobCompare(lastOp'.top, e)
                /\ Elems(heap') = Elems(heap) \ {lastOp'.top}
                /\ Len(heap') = Len(heap) - 1
          /\ lastOp'.op = "remove_if" =>
                IF Matching(heap, lastOp'.job_id) # {}
                THEN /\ lastOp'.ok
                     /\ Len(heap') = Len(heap) - 1
                     /\ \E e \in Matching(heap, lastOp'.job_id) : Elems(heap') = Elems(heap) \ {e}
                ELSE ~lastOp'.ok /\ heap' = heap
          /\ lastOp'.op = "push" =>
                Elems(heap') = Elems(heap) \cup {lastOp'.item} /\ Len(heap') = Len(heap) + 1
          /\ lastOp'.op = "update" =>
                /\ lastOp'.ok = (Matching(heap, lastOp'.job_id) # {})
                /\ Len(heap') = Len(heap)
                /\ {e.job_id : e \in Elems(heap')} = {e.job_id : e \in Elems(heap)}]_vars

\* remove_if took an entry out of the left subtree of a queue of six; the last
\* entry, which came from the right subtree, went up from the place of the
\* removed one to that of its parent.
C38_Witness ==
    /\ lastOp.op = "remove_if" /\ lastOp.ok
    /\ Len(heap) = 5
    /\ lastOp.index \in {3, 4}
    /\ At(heap, 1).job_id = lastOp.back
    /\ JobCompare(At(heap, lastOp.index), At(heap, 1))

\* The bounded FIFO a CircularBuffer stands for: its count_ items from head_
\* on, oldest first.
Fifo(r) == [i \in 1 .. r.count |-> r.buf[(r.head + (i - 1)) % RingCapacity]]

\* The last n items of a sequence (all of it when it is shorter).
Newest(q, n) == SubSeq(q, Len(q) - Min(n, Len(q)) + 1, Len(q))

\* C39: After any sequence of push, push_overwrite, pop and clear a
\* CircularBuffer is a FIFO bounded by its capacity: size() never exceeds the
\* capacity; push on a full buffer returns false and changes nothing, else it
\* appends; push_overwrite on a full buffer drops exactly the oldest item and
\* appends; pop returns the items in the order they went in (nullopt when
\* empty); clear empties; last_n(n) returns the min(n, size) newest items,
\* oldest first.
C39_BoundedFifo ==
    /\ [](ring.count <= RingCapacity /\ ring.tail = (ring.head + ring.count) % RingCapacity)
    /\ [][/\ lastOp'.op = "push" =>
                IF Len(Fifo(ring)) = RingCapacity
                THEN ~lastOp'.ok /\ ring' = ring
                ELSE lastOp'.ok /\ Fifo(ring') = Append(Fifo(ring), lastOp'.item)
          /\ lastOp'.op = "push_overwrite" =>
                Fifo(ring') = IF Len(Fifo(ring)) = RingCapacity
                              THEN Append(Tail(Fifo(ring)), lastOp'.item)
                              ELSE Append(Fifo(ring), lastOp'.item)
          /\ lastOp'.op = "pop" =>
                IF Fifo(ring) = <<>>
                THEN lastOp'.item = Nullopt /\ ring' = ring
                ELSE lastOp'.item = Some(Head(Fifo(ring))) /\ Fifo(ring') = Tail(Fifo(ring))
          /\ lastOp'.op = "clear" => Fifo(ring') = <<>>
          /\ lastOp'.op = "last_n" =>
                lastOp'.result = Newest(Fifo(ring), lastOp'.n) /\ ring' = ring]_vars

\* last_n(2) on a full buffer that has wrapped: push_overwrite has dropped the
\* oldest items, and the two newest lie across the end of buf_.
C39_Witness ==
    /\ lastOp.op = "last_n" /\ lastOp.n = 2
    /\ ring.count = RingCapacity
    /\ ring.head = RingCapacity - 1
    /\ lastOp.result = <<ring.buf[0], ring.buf[1]>>
    /\ ring.buf[0] # ring.buf[1]

\* The leaves of the tree below node, by the children pointers.
RECURSIVE LeavesBelow(_, _)
LeavesBelow(nodes, node) ==
    IF nodes[node].is_leaf THEN {node}
    ELSE UNION {LeavesBelow(nodes, nodes[node].children[i]) :
                    i \in 1 .. Len(nodes[node].children)}

\* The map a tree stands for: the key-value pairs of the leaves below the root.
Pairs(t) ==
    UNION {{<<t.nodes[l].keys[i], t.nodes[l].values[i]>> : i \in 1 .. Len(t.nodes[l].keys)} :
              l \in LeavesBelow(t.nodes, t.root)}

KeysOf(t) == {p[1] : p \in Pairs(t)}

\* C40: After any sequence of insert and erase, splits of leaves and of
\* internal nodes included, a BPlusTree is a map: insert(k, v) binds k to v and
\* leaves the other keys alone, erase(k) unbinds k, returns whether k was
\* bound, and leaves the other keys alone; find(k) returns the value k is bound
\* to, which is the one inserted last, or nothing; size() is the number of
\* keys; for_each visits every pair once, keys ascending.
C40_TreeIsMap ==
    /\ [](/\ \A p \in Pairs(tree), q \in Pairs(tree) : p[1] = q[1] => p = q
          /\ \A k \in TreeKeys :
                find(tree, k) = IF k \in KeysOf(tree)
                                THEN Some((CHOOSE p \in Pairs(tree) : p[1] = k)[2])
                                ELSE Nullopt
          /\ tree.size = Cardinality(KeysOf(tree))
          /\ Elems(for_each(tree)) = Pairs(tree)
          /\ Len(for_each(tree)) = tree.size
          /\ \A i \in 1 .. Len(for_each(tree)) - 1 :
                for_each(tree)[i][1] < for_each(tree)[i + 1][1])
    /\ [][/\ lastOp'.op = "insert" =>
                Pairs(tree') = {p \in Pairs(tree) : p[1] # lastOp'.key}
                                   \cup {<<lastOp'.key, lastOp'.value>>}
          /\ lastOp'.op = "erase" =>
                /\ lastOp'.found = (lastOp'.key \in KeysOf(tree))
                /\ Pairs(tree') = {p \in Pairs(tree) : p[1] # lastOp'.key}]_vars

\* The tree has three levels (an internal node was split), a leaf emptied by
\* erase lies inside the list of leaves, another leaf is full, and the last
\* call bound its key to MaxValue.
C40_Witness ==
    /\ lastOp.op = "insert"
    /\ ~tree.nodes[tree.root].is_leaf
    /\ ~tree.nodes[tree.nodes[tree.root].children[1]].is_leaf
    /\ \E l \in LeavesBelow(tree.nodes, tree.root) :
          /\ tree.nodes[l].keys = <<>>
          /\ tree.nodes[l].next # 0
          /\ l # Leftmost(tree.nodes, tree.root)
    /\ \E p \in Pairs(tree) : p[1] = lastOp.key /\ p[2] = lastOp.value /\ p[2] = MaxValue
    /\ \E k \in 1 .. Len(tree.nodes) : tree.nodes[k].is_leaf /\ Len(tree.nodes[k].keys) = MAX_KEYS

====
